---- MODULE Spec2Model ----
(***************************************************************************)
(* UndoTransaction (src/src/undo_transaction.cpp): the transaction scope   *)
(* guard over a sprite document and its undo history, and the composite    *)
(* mutation operations issued through it.                                   *)
(*                                                                          *)
(* A machine state m is a record [doc, undo, t]: the sprite document, the   *)
(* undo history (journal) and the transaction object.  Every method of     *)
(* UndoTransaction is an operator from machine states to machine states,    *)
(* composed in the order of the statements of the method.                   *)
(***************************************************************************)
EXTENDS Integers, Sequences, FiniteSets, TLC

VARIABLES doc, undo, txn, hist

vars == <<doc, undo, txn, hist>>

-----------------------------------------------------------------------------
(* Bounds of the model *)

\* transactions opened in one behaviour
MaxTxn == 1
\* composite operations issued in one behaviour
MaxOps == 1

\* composite operations issued in one behaviour whose transactions repeat
\* changes of one field or stock slot
MaxRepeat == 2
\* a journal record can fail (resource exhaustion) at the k-th record, k <= MaxFail
MaxFail == 3
\* newFrame is not issued on a sprite that has MaxFrames frames
MaxFrames == 4
\* changes of the journal's enabled flag in one behaviour
MaxToggle == 1

NULL == 0

-----------------------------------------------------------------------------
(* Sequences *)

RemoveAt(s, i) == SubSeq(s, 1, i-1) \o SubSeq(s, i+1, Len(s))

InsertAt(s, i, e) == SubSeq(s, 1, i-1) \o <<e>> \o SubSeq(s, i, Len(s))

\* the first position of e in s, 0 when absent
IndexOf(s, e) ==
  IF \E i \in 1..Len(s) : s[i] = e
  THEN CHOOSE i \in 1..Len(s) : s[i] = e /\ \A j \in 1..(i-1) : s[j] # e
  ELSE 0

Range(s) == {s[i] : i \in 1..Len(s)}

Min(a, b) == IF a < b THEN a ELSE b

Max(a, b) == IF a > b THEN a ELSE b

-----------------------------------------------------------------------------
(* Pixel surfaces (raster/image): an image is [imgtype, w, h, px],          *)
(* px[y+1][x+1] the pixel at (x,y).  NoImage stands for a NULL Image        *)
(* pointer.  A pixel is 0 (transparent: alpha 0, or entry 0 of the palette  *)
(* of an indexed image), 1 (an opaque colour) or 2 (the opaque colour of    *)
(* entry 0 of the palette).                                                  *)

NoImage == [imgtype |-> "", w |-> 0, h |-> 0, px |-> <<>>]

image_new(imgtype, w, h) ==
  [imgtype |-> imgtype, w |-> w, h |-> h, px |-> [y \in 1..h |-> [x \in 1..w |-> 0]]]

image_clear(img, c) == [img EXCEPT !.px = [y \in 1..img.h |-> [x \in 1..img.w |-> c]]]

InImage(img, x, y) == x >= 0 /\ x < img.w /\ y >= 0 /\ y < img.h

image_getpixel(img, x, y) == img.px[y+1][x+1]

\* image_putpixel clips to the image
image_putpixel(img, x, y, c) ==
  IF InImage(img, x, y) THEN [img EXCEPT !.px[y+1][x+1] = c] ELSE img

\* image_copy(dst, src, x, y): src drawn opaque onto dst at (x,y)
image_copy(dst, src, x, y) ==
  [dst EXCEPT !.px = [v \in 1..dst.h |-> [u \in 1..dst.w |->
      IF InImage(src, u-1-x, v-1-y) THEN image_getpixel(src, u-1-x, v-1-y)
      ELSE dst.px[v][u]]]]

\* image_merge(dst, src, x, y, opacity, blend): normal blend; a source pixel
\* of colour 0 is transparent, opacity 0 draws nothing
image_merge(dst, src, x, y, opacity) ==
  [dst EXCEPT !.px = [v \in 1..dst.h |-> [u \in 1..dst.w |->
      IF /\ opacity > 0
         /\ InImage(src, u-1-x, v-1-y)
         /\ image_getpixel(src, u-1-x, v-1-y) # 0
      THEN image_getpixel(src, u-1-x, v-1-y)
      ELSE dst.px[v][u]]]]

\* image_crop(src, x, y, w, h, bg): the w by h window of src at (x,y), bg outside src
image_crop(src, x, y, w, h, bg) ==
  [imgtype |-> src.imgtype, w |-> w, h |-> h, px |-> [v \in 1..h |-> [u \in 1..w |->
      IF InImage(src, x+u-1, y+v-1) THEN image_getpixel(src, x+u-1, y+v-1) ELSE bg]]]

\* image_shrink_rect(image, refpixel): the points of the image whose pixel is
\* not refpixel; their bounding box is the rectangle the function returns, and
\* it returns false when there is no such point
image_shrink_rect(image, refpixel) ==
  {p \in (0..(image.w - 1)) \X (0..(image.h - 1)) :
     image_getpixel(image, p[1], p[2]) # refpixel}

\* quantization::convert_imgtype, one pixel: entry 0 of an indexed image is
\* transparent unless the sprite has a background, and then it becomes the
\* opaque colour of the entry; towards indexed, alpha 0 becomes entry 0 and
\* a colour becomes the nearest entry of the palette
ConvertPixel(c, from, to, has_background) ==
  IF from = to THEN c
  ELSE IF from = "indexed" THEN (IF c = 0 /\ has_background THEN 2 ELSE c)
  ELSE IF to = "indexed" THEN (IF c = 2 THEN 0 ELSE c)
  ELSE c

convert_imgtype(image, new_imgtype, has_background) ==
  [image EXCEPT !.imgtype = new_imgtype,
                !.px = [y \in 1..image.h |-> [x \in 1..image.w |->
                   ConvertPixel(image.px[y][x], image.imgtype, new_imgtype, has_background)]]]

-----------------------------------------------------------------------------
(* Document model (raster/sprite, layer, cel, stock, mask)                  *)

ROOT == 1

NoCel == [id |-> 0, frame |-> 0, x |-> 0, y |-> 0, opacity |-> 0, image |-> 0]

cel_new(id, frame, image) ==
  [id |-> id, frame |-> frame, x |-> 0, y |-> 0, opacity |-> 255, image |-> image]

Flags(bg, mv) == [background |-> bg, moveable |-> mv, readable |-> TRUE, writable |-> TRUE]

LayerImage(parent, name) ==
  [type |-> "image", parent |-> parent, flags |-> Flags(FALSE, TRUE), name |-> name,
   cels |-> <<>>, layers |-> <<>>]

LayerFolder(parent, name, kids) ==
  [type |-> "folder", parent |-> parent, flags |-> Flags(FALSE, TRUE), name |-> name,
   cels |-> <<>>, layers |-> kids]

\* Stock::getImage(index): NULL outside the stock
Stock_getImage(d, i) == IF i >= 0 /\ i < Len(d.stock) THEN d.stock[i+1] ELSE NoImage

Stock_size(d) == Len(d.stock)

\* Stock::addImage appends and returns the new index
Stock_addImage(d, img) == [d EXCEPT !.stock = Append(@, img)]

\* Stock::removeImage leaves a NULL slot
Stock_removeImage(d, i) == [d EXCEPT !.stock[i+1] = NoImage]

Stock_replaceImage(d, i, img) == [d EXCEPT !.stock[i+1] = img]

\* LayerImage::getCel(frame): the first cel of the list with that frame
getCel(d, l, frame) ==
  LET cs == d.layers[l].cels
  IN  IF \E i \in 1..Len(cs) : cs[i].frame = frame
      THEN cs[CHOOSE i \in 1..Len(cs) :
                cs[i].frame = frame /\ \A j \in 1..(i-1) : cs[j].frame # frame]
      ELSE NoCel

\* position of the cel with this id in the layer's list, 0 when absent
CelPos(d, l, id) ==
  LET cs == d.layers[l].cels
  IN  IF \E i \in 1..Len(cs) : cs[i].id = id
      THEN CHOOSE i \in 1..Len(cs) : cs[i].id = id
      ELSE 0

\* the layer that holds the cel with this id, NULL when none
CelLayer(d, id) ==
  IF \E l \in DOMAIN d.layers : CelPos(d, l, id) # 0
  THEN CHOOSE l \in DOMAIN d.layers : CelPos(d, l, id) # 0
  ELSE NULL

CelById(d, id) ==
  LET l == CelLayer(d, id) IN IF l = NULL THEN NoCel ELSE d.layers[l].cels[CelPos(d, l, id)]

\* LayerImage::addCel inserts before the first cel of a later frame
Layer_addCel(d, l, cel) ==
  LET cs == d.layers[l].cels
      later == {i \in 1..Len(cs) : cs[i].frame > cel.frame}
      pos == IF later = {} THEN Len(cs) + 1
             ELSE CHOOSE i \in later : \A j \in later : i <= j
  IN  [d EXCEPT !.layers[l].cels = InsertAt(cs, pos, cel)]

Layer_removeCel(d, l, id) ==
  LET p == CelPos(d, l, id)
  IN  IF p = 0 THEN d ELSE [d EXCEPT !.layers[l].cels = RemoveAt(@, p)]

\* a write through a Cel pointer
SetCelField(d, id, f, v) ==
  LET l == CelLayer(d, id)
  IN  IF l = NULL THEN d
      ELSE [d EXCEPT !.layers[l].cels[CelPos(d, l, id)] =
              IF f = "frame" THEN [@ EXCEPT !.frame = v]
              ELSE IF f = "x" THEN [@ EXCEPT !.x = v]
              ELSE [@ EXCEPT !.y = v]]

\* the layer and all layers below it
RECURSIVE SubtreeSeq(_, _)
RECURSIVE Subtree(_, _)
SubtreeSeq(d, ls) ==
  IF ls = <<>> THEN {} ELSE Subtree(d, Head(ls)) \cup SubtreeSeq(d, Tail(ls))
Subtree(d, l) == {l} \cup SubtreeSeq(d, d.layers[l].layers)

\* Layer::get_prev / get_next: the siblings in the parent's list, NULL at the ends
get_prev(d, l) ==
  LET sib == d.layers[d.layers[l].parent].layers
      i == IndexOf(sib, l)
  IN  IF i > 1 THEN sib[i-1] ELSE NULL

get_next(d, l) ==
  LET sib == d.layers[d.layers[l].parent].layers
      i == IndexOf(sib, l)
  IN  IF i > 0 /\ i < Len(sib) THEN sib[i+1] ELSE NULL

\* LayerFolder::add_layer(layer): a new layer goes on top (end of the list)
Folder_add_layer(d, folder, l, rec) ==
  [d EXCEPT !.layers = [k \in DOMAIN @ \cup {l} |->
      IF k = l THEN [rec EXCEPT !.parent = folder]
      ELSE IF k = folder THEN [@[k] EXCEPT !.layers = Append(@, l)]
      ELSE @[k]]]

\* the stock indices that the cels of the layers ls reference
CelImages(d, ls) ==
  UNION {{d.layers[l].cels[i].image : i \in 1..Len(d.layers[l].cels)} : l \in ls}

\* LayerFolder::remove_layer(layer) followed by delete layer: the layer and
\* the layers below it leave the tree; the life of a stock image ends with
\* the last cel that references it (SubSeq gives the rebuilt stock as an
\* explicit sequence, here and wherever a sequence is rebuilt element by element)
Folder_remove_layer(d, l) ==
  LET p == d.layers[l].parent
      gone == Subtree(d, l)
      dead == CelImages(d, gone) \ CelImages(d, DOMAIN d.layers \ gone)
  IN  [d EXCEPT !.layers = [k \in DOMAIN @ \ gone |->
                   IF k = p THEN [@[k] EXCEPT !.layers = RemoveAt(@, IndexOf(@, l))]
                   ELSE @[k]],
                !.stock = SubSeq([i \in 1..Len(@) |->
                                    IF (i - 1) \in dead THEN NoImage ELSE @[i]], 1, Len(@))]

\* LayerFolder::move_layer(layer, after): after = NULL moves to the bottom
Folder_move_layer(d, l, after) ==
  LET p == d.layers[l].parent
      without == RemoveAt(d.layers[p].layers, IndexOf(d.layers[p].layers, l))
      pos == IF after = NULL THEN 1 ELSE IndexOf(without, after) + 1
  IN  [d EXCEPT !.layers[p].layers = InsertAt(without, pos, l)]

\* LayerImage::configureAsBackground: flags, forced name, bottom of the stack
configureAsBackground(d, l) ==
  Folder_move_layer([d EXCEPT !.layers[l].flags.background = TRUE,
                              !.layers[l].flags.moveable = FALSE,
                              !.layers[l].name = "Background"], l, NULL)

\* Sprite::getBackgroundLayer: the layer marked background, NULL when none
getBackgroundLayer(d) ==
  LET bgs == {l \in DOMAIN d.layers :
                d.layers[l].type = "image" /\ d.layers[l].flags.background}
  IN  IF bgs = {} THEN NULL ELSE CHOOSE l \in bgs : \A k \in bgs : l <= k

\* layer_render(layer, image, x, y, frame): the cels of the frame merged bottom-up
RECURSIVE RenderSeq(_, _, _, _)
RECURSIVE layer_render(_, _, _, _)
RenderSeq(d, ls, image, frame) ==
  IF ls = <<>> THEN image
  ELSE RenderSeq(d, Tail(ls), layer_render(d, Head(ls), image, frame), frame)
layer_render(d, l, image, frame) ==
  IF ~d.layers[l].flags.readable THEN image
  ELSE IF d.layers[l].type = "folder" THEN RenderSeq(d, d.layers[l].layers, image, frame)
  ELSE LET cel == getCel(d, l, frame)
           src == Stock_getImage(d, cel.image)
       IN  IF cel = NoCel \/ src = NoImage THEN image
           ELSE image_merge(image, src, cel.x, cel.y, cel.opacity)

\* Mask: a w by h bitmap at (x,y); the empty mask has no bitmap
NoMask == [name |-> "", x |-> 0, y |-> 0, w |-> 0, h |-> 0, bits |-> <<>>]

mask_is_empty(mk) == mk.bits = <<>>

mask_none(mk) == [NoMask EXCEPT !.name = mk.name]


-----------------------------------------------------------------------------
(* Sprite accessors and setters (raster/sprite)                             *)

\* Sprite::setTotalFrames resizes the frame-duration array with the count
Sprite_setTotalFrames(d, frames) ==
  [d EXCEPT !.frames = frames,
            !.frlens = SubSeq([i \in 1..frames |-> IF i <= Len(@) THEN @[i] ELSE 0],
                              1, frames)]

Sprite_setCurrentFrame(d, frame) == [d EXCEPT !.frame = frame]

Sprite_setCurrentLayer(d, l) == [d EXCEPT !.layer = l]

Sprite_setFrameDuration(d, frame, msecs) ==
  IF frame >= 0 /\ frame < Len(d.frlens) THEN [d EXCEPT !.frlens[frame+1] = msecs] ELSE d

Sprite_getFrameDuration(d, frame) ==
  IF frame >= 0 /\ frame < Len(d.frlens) THEN d.frlens[frame+1] ELSE 0

\* Sprite::requestMask(name): position in the repository, 0 when absent
Sprite_requestMask(d, name) ==
  IF \E i \in 1..Len(d.masks) : d.masks[i].name = name
  THEN CHOOSE i \in 1..Len(d.masks) :
         d.masks[i].name = name /\ \A j \in 1..(i-1) : d.masks[j].name # name
  ELSE 0

\* Sprite::resetPalettes leaves the first palette only
Sprite_resetPalettes(d) == [d EXCEPT !.palettes = SubSeq(@, 1, 1)]

\* Sprite::setPalette(pal, truncate): the palette of the frame of pal is
\* replaced, or pal is added when that frame has none
Sprite_setPalette(d, pal) ==
  IF \E i \in 1..Len(d.palettes) : d.palettes[i].frame = pal.frame
  THEN [d EXCEPT !.palettes = SubSeq([i \in 1..Len(@) |->
                                        IF @[i].frame = pal.frame THEN pal ELSE @[i]],
                                      1, Len(@))]
  ELSE [d EXCEPT !.palettes = Append(@, pal)]

\* Palette::createGrayscale
GrayscalePalette == [frame |-> 0, name |-> "grayscale"]

\* image_putpixel of the flipped rectangle (x1,y1)-(x2,y2) of an image
FlipPixels(image, x1, y1, x2, y2, flip_horizontal, flip_vertical) ==
  LET area == image_crop(image, x1, y1, x2 - x1 + 1, y2 - y1 + 1, 0)
  IN  [image EXCEPT !.px = [v \in 1..image.h |-> [u \in 1..image.w |->
        IF u - 1 >= x1 /\ u - 1 <= x2 /\ v - 1 >= y1 /\ v - 1 <= y2
        THEN image_getpixel(area,
                            IF flip_horizontal THEN x2 - (u - 1) ELSE (u - 1) - x1,
                            IF flip_vertical THEN y2 - (v - 1) ELSE (v - 1) - y1)
        ELSE image.px[v][u]]]]

-----------------------------------------------------------------------------
(* Undo history (raster/undo_history): committed groups of inverse records, *)
(* the open group, the redo sequence.                                        *)

\* one inverse record; a, b, c are integers, v is the saved value of the kind
R(kind, a, b, c, v) == [kind |-> kind, a |-> a, b |-> b, c |-> c, v |-> v]

\* the pixels of the rectangle (x,y,w,h) put back into the image
RestoreRegion(img, x, y, saved) == image_copy(img, saved, x, y)

\* the saved pixels of a Dirty put back into the image
RestoreDirty(img, pixels) ==
  [img EXCEPT !.px = [v \in 1..img.h |-> [u \in 1..img.w |->
      IF \E p \in pixels : p[1] = u-1 /\ p[2] = v-1
      THEN (CHOOSE p \in pixels : p[1] = u-1 /\ p[2] = v-1)[3]
      ELSE img.px[v][u]]]]

\* a removed layer (with the layers below it and the images of their cels)
\* put back after its old sibling
RestoreLayer(d, l, parent, after, saved) ==
  LET sib == d.layers[parent].layers
      pos == IF after = NULL THEN 1 ELSE IndexOf(sib, after) + 1
      layers == saved[1]
      images == saved[2]
  IN  [d EXCEPT !.layers = [k \in DOMAIN @ \cup DOMAIN layers |->
                   IF k \in DOMAIN layers THEN layers[k]
                   ELSE IF k = parent THEN [@[k] EXCEPT !.layers = InsertAt(sib, pos, l)]
                   ELSE @[k]],
                !.stock = SubSeq([i \in 1..Len(@) |->
                            IF (i - 1) \in DOMAIN images THEN images[i - 1] ELSE @[i]],
                          1, Len(@))]

\* the inverse of one record applied to the document
ApplyInverse(d, r) ==
  CASE r.kind = "set_frames" ->
         [d EXCEPT !.frames = r.a, !.frlens = r.v]
    [] r.kind = "set_frame" -> Sprite_setCurrentFrame(d, r.a)
    [] r.kind = "set_layer" -> Sprite_setCurrentLayer(d, r.a)
    [] r.kind = "set_size" -> [d EXCEPT !.w = r.a, !.h = r.b]
    [] r.kind = "set_frlen" -> Sprite_setFrameDuration(d, r.a, r.b)
    [] r.kind = "cel_frame" -> SetCelField(d, r.a, "frame", r.b)
    [] r.kind = "cel_x" -> SetCelField(d, r.a, "x", r.b)
    [] r.kind = "cel_y" -> SetCelField(d, r.a, "y", r.b)
    [] r.kind = "mask_x" -> [d EXCEPT !.mask.x = r.b]
    [] r.kind = "mask_y" -> [d EXCEPT !.mask.y = r.b]
    [] r.kind = "image" ->
         Stock_replaceImage(d, r.a, RestoreRegion(Stock_getImage(d, r.a), r.b, r.c, r.v))
    [] r.kind = "dirty" ->
         Stock_replaceImage(d, r.a, RestoreDirty(Stock_getImage(d, r.a), r.v))
    [] r.kind = "add_image" -> Stock_removeImage(d, r.a)
    [] r.kind = "remove_image" -> Stock_replaceImage(d, r.a, r.v)
    [] r.kind = "replace_image" -> Stock_replaceImage(d, r.a, r.v)
    [] r.kind = "add_layer" -> Folder_remove_layer(d, r.b)
    [] r.kind = "remove_layer" -> RestoreLayer(d, r.a, r.b, r.c, r.v)
    [] r.kind = "move_layer" -> Folder_move_layer(d, r.a, r.c)
    [] r.kind = "add_cel" -> Layer_removeCel(d, r.a, r.b)
    [] r.kind = "remove_cel" -> Layer_addCel(d, r.a, r.v)
    [] r.kind = "data" -> [d EXCEPT !.layers[r.a].flags = r.v]
    [] r.kind = "set_layer_name" -> [d EXCEPT !.layers[r.a].name = r.v]
    [] r.kind = "set_mask" -> [d EXCEPT !.mask = r.v]
    [] r.kind = "stock_imgtype" -> [d EXCEPT !.stockImgtype = r.v]
    [] r.kind = "set_imgtype" -> [d EXCEPT !.imgtype = r.v]
    [] r.kind = "remove_palette" -> Sprite_setPalette(d, r.v)
    [] r.kind = "flip" ->
         Stock_replaceImage(d, r.a,
           FlipPixels(Stock_getImage(d, r.a), r.v[1], r.v[2], r.v[3], r.v[4],
                      r.v[5], ~r.v[5]))
    [] OTHER -> d

\* the records of a group undone last to first
RECURSIVE ApplyInverses(_, _)
ApplyInverses(d, recs) ==
  IF recs = <<>> THEN d
  ELSE ApplyInverses(ApplyInverse(d, recs[Len(recs)]), SubSeq(recs, 1, Len(recs) - 1))

\* UndoHistory::undo_open: a new group is opened under the label; opening a
\* group while one is open is a fatal programming error
undo_open(m, label) ==
  IF m.undo.isOpen THEN [m EXCEPT !.t.status = "aborted"]
  ELSE [m EXCEPT !.undo.isOpen = TRUE, !.undo.label = label, !.undo.open = <<>>]

\* UndoHistory::undo_close: the open group joins the committed groups; a new
\* committed group discards the redo sequence
undo_close(m) ==
  IF ~m.undo.isOpen THEN m
  ELSE [m EXCEPT !.undo.isOpen = FALSE,
                 !.undo.open = <<>>,
                 !.undo.groups = Append(@, [label |-> m.undo.label, recs |-> m.undo.open]),
                 !.undo.redo = <<>>]

\* UndoHistory::doUndo: the most recent committed group is undone and moved
\* to the redo sequence
doUndo(m) ==
  IF m.undo.groups = <<>> THEN m
  ELSE LET g == m.undo.groups[Len(m.undo.groups)]
       IN  [m EXCEPT !.doc = ApplyInverses(m.doc, g.recs),
                     !.undo.groups = SubSeq(@, 1, Len(@) - 1),
                     !.undo.redo = Append(@, g)]

\* UndoHistory::clearRedo
clearRedo(m) == [m EXCEPT !.undo.redo = <<>>]

-----------------------------------------------------------------------------
(* Execution of one method: a failed precondition (ASSERT) is fatal, a      *)
(* journal record can fail by resource exhaustion; after either, the rest   *)
(* of the method is not executed.                                           *)

Running(m) == m.t.status = "ok"

ASSERT(m, cond) ==
  IF Running(m) /\ ~cond THEN [m EXCEPT !.t.status = "aborted"] ELSE m

\* an isEnabled that reads the flag of the journal
isEnabledNow(m) == m.undo.enabled

\* UndoTransaction::isEnabled(): the flag cached by the constructor
isEnabled(m) == m.t.enabledFlag

\* if (isEnabled()) m_undoHistory->undo_...(...)
Log(m, r) ==
  IF ~Running(m) \/ ~isEnabled(m) THEN m
  ELSE IF m.t.limited /\ m.t.fuel = 0 THEN [m EXCEPT !.t.status = "thrown"]
  ELSE [m EXCEPT !.undo.open = Append(@, r),
                 !.t.fuel = IF m.t.limited THEN @ - 1 ELSE @]

\* a write to the document
Do(m, d) == IF Running(m) THEN [m EXCEPT !.doc = d] ELSE m


-----------------------------------------------------------------------------
(* UndoTransaction: constructor, destructor, commit                          *)

\* a constructor that caches the flag and opens no group
UndoTransactionNoGroup(m, label) ==
  [m EXCEPT !.t = [state |-> "open", committed |-> FALSE,
                   enabledFlag |-> m.undo.enabled, status |-> "ok",
                   limited |-> FALSE, fuel |-> 0, nops |-> 0, nested |-> FALSE]]

UndoTransaction(m, label) ==
  LET m1 == [m EXCEPT !.t = [state |-> "open", committed |-> FALSE,
                             enabledFlag |-> m.undo.enabled, status |-> "ok",
                             limited |-> FALSE, fuel |-> 0, nops |-> 0,
                             nested |-> FALSE]]
  IN  IF isEnabled(m1) THEN undo_open(m1, label) ELSE m1

\* a destructor that does not look at m_committed
DestructorIgnoringCommit(m) ==
  IF isEnabled(m) THEN clearRedo(doUndo(undo_close(m))) ELSE m

\* a destructor that undoes before the open group is closed
DestructorUndoBeforeClose(m) ==
  IF isEnabled(m)
  THEN IF ~m.t.committed THEN undo_close(clearRedo(doUndo(m))) ELSE undo_close(m)
  ELSE m

\* ~UndoTransaction
Destructor(m) ==
  IF isEnabled(m)
  THEN LET m1 == undo_close(m)
       IN  IF ~m1.t.committed THEN clearRedo(doUndo(m1)) ELSE m1
  ELSE m

commit(m) == [m EXCEPT !.t.committed = TRUE]

-----------------------------------------------------------------------------
(* Sprite properties                                                         *)

setNumberOfFrames(m, frames) ==
  LET m0 == ASSERT(m, frames >= 1)
      m1 == Log(m0, R("set_frames", m0.doc.frames, 0, 0, m0.doc.frlens))
  IN  Do(m1, Sprite_setTotalFrames(m1.doc, frames))

setCurrentFrame(m, frame) ==
  LET m0 == ASSERT(m, frame >= 0)
      m1 == Log(m0, R("set_frame", m0.doc.frame, 0, 0, <<>>))
  IN  Do(m1, Sprite_setCurrentFrame(m1.doc, frame))

setCurrentLayer(m, layer) ==
  LET m1 == Log(m, R("set_layer", m.doc.layer, 0, 0, <<>>))
  IN  Do(m1, Sprite_setCurrentLayer(m1.doc, layer))

-----------------------------------------------------------------------------
(* Stock                                                                     *)

\* the index that Stock::addImage will return
NextImageIndex(m) == Stock_size(m.doc)

addImageInStock(m, image) ==
  LET image_index == NextImageIndex(m)
      m1 == Do(m, Stock_addImage(m.doc, image))
  IN  Log(m1, R("add_image", image_index, 0, 0, <<>>))

removeImageFromStock(m, image_index) ==
  LET m0 == ASSERT(m, image_index >= 0)
      image == Stock_getImage(m0.doc, image_index)
      m1 == ASSERT(m0, image # NoImage)
      m2 == Log(m1, R("remove_image", image_index, 0, 0, image))
  IN  Do(m2, Stock_removeImage(m2.doc, image_index))

\* a replaceStockImage whose record saves the image that replaces the old one
replaceStockImageSaveNew(m, image_index, new_image) ==
  LET m1 == ASSERT(m, Stock_getImage(m.doc, image_index) # NoImage)
      m2 == Log(m1, R("replace_image", image_index, 0, 0, new_image))
  IN  Do(m2, Stock_replaceImage(m2.doc, image_index, new_image))

replaceStockImage(m, image_index, new_image) ==
  LET old_image == Stock_getImage(m.doc, image_index)
      m1 == ASSERT(m, old_image # NoImage)
      m2 == Log(m1, R("replace_image", image_index, 0, 0, old_image))
  IN  Do(m2, Stock_replaceImage(m2.doc, image_index, new_image))

-----------------------------------------------------------------------------
(* Cels                                                                      *)

addCel(m, layer, cel) ==
  LET m1 == Log(m, R("add_cel", layer, cel.id, 0, <<>>))
  IN  Do(m1, Layer_addCel(m1.doc, layer, cel))

\* a removeCel that records the removal and leaves the cel in the layer
removeCelRecordOnly(m, layer, cel) == Log(m, R("remove_cel", layer, 0, 0, cel))

removeCel(m, layer, cel) ==
  IF ~Running(m) THEN m
  ELSE LET used == \E frame \in 0..(m.doc.frames - 1) :
                     LET it == getCel(m.doc, layer, frame)
                     IN  it # NoCel /\ it.id # cel.id /\ it.image = cel.image
           m1 == IF ~used THEN removeImageFromStock(m, cel.image) ELSE m
           m2 == Log(m1, R("remove_cel", layer, 0, 0, cel))
       IN  Do(m2, Layer_removeCel(m2.doc, layer, cel.id))

setCelFramePosition(m, cel, frame) ==
  LET m0 == ASSERT(m, frame >= 0)
      m1 == Log(m0, R("cel_frame", cel, CelById(m0.doc, cel).frame, 0, <<>>))
  IN  Do(m1, SetCelField(m1.doc, cel, "frame", frame))

\* a setCelPosition that moves the cel and then records its position
setCelPositionLate(m, cel, x, y) ==
  LET m1 == Do(m, SetCelField(SetCelField(m.doc, cel, "x", x), cel, "y", y))
      m2 == Log(m1, R("cel_x", cel, CelById(m1.doc, cel).x, 0, <<>>))
  IN  Log(m2, R("cel_y", cel, CelById(m2.doc, cel).y, 0, <<>>))

setCelPosition(m, cel, x, y) ==
  LET m1 == Log(m, R("cel_x", cel, CelById(m.doc, cel).x, 0, <<>>))
      m2 == Log(m1, R("cel_y", cel, CelById(m.doc, cel).y, 0, <<>>))
  IN  Do(m2, SetCelField(SetCelField(m2.doc, cel, "x", x), cel, "y", y))

setFrameDuration(m, frame, msecs) ==
  LET m1 == Log(m, R("set_frlen", frame, Sprite_getFrameDuration(m.doc, frame), 0, <<>>))
  IN  Do(m1, Sprite_setFrameDuration(m1.doc, frame, msecs))

\* cel_new: a fresh Cel object
NewCel(m, frame, image) == cel_new(m.doc.nextCel, frame, image)

\* cel_new allocates the Cel object: the allocation can fail as a journal
\* record can
AllocCel(m) ==
  IF ~Running(m) THEN m
  ELSE IF m.t.limited /\ m.t.fuel = 0 THEN [m EXCEPT !.t.status = "thrown"]
  ELSE [m EXCEPT !.doc.nextCel = @ + 1,
                 !.t.fuel = IF m.t.limited THEN @ - 1 ELSE @]

-----------------------------------------------------------------------------
(* Layers                                                                    *)

newLayer(m) ==
  IF ~Running(m) THEN m
  ELSE LET layer == m.doc.nextLayer
           m0 == Do(m, [m.doc EXCEPT !.nextLayer = @ + 1])
           m1 == Log(m0, R("add_layer", ROOT, layer, 0, <<>>))
           m2 == Do(m1, Folder_add_layer(m1.doc, ROOT, layer, LayerImage(ROOT, "Layer")))
       IN  setCurrentLayer(m2, layer)

\* undo_remove_layer saves the layer, the layers below it with the images of
\* their cels, and its place
RemoveLayerRecord(d, layer) ==
  R("remove_layer", layer, d.layers[layer].parent, get_prev(d, layer),
    <<[k \in Subtree(d, layer) |-> d.layers[k]],
      [i \in CelImages(d, Subtree(d, layer)) |-> Stock_getImage(d, i)]>>)

removeLayer(m, layer) ==
  IF ~Running(m) THEN m
  ELSE LET m0 == ASSERT(m, layer # NULL)
           parent == m.doc.layers[layer].parent
           layer_select ==
             IF get_prev(m.doc, layer) # NULL THEN get_prev(m.doc, layer)
             ELSE IF get_next(m.doc, layer) # NULL THEN get_next(m.doc, layer)
             ELSE IF parent # ROOT THEN parent
             ELSE NULL
           m1 == IF layer = m.doc.layer THEN setCurrentLayer(m0, layer_select) ELSE m0
           m2 == Log(m1, RemoveLayerRecord(m1.doc, layer))
       IN  Do(m2, Folder_remove_layer(m2.doc, layer))

moveLayerAfter(m, layer, after_this) ==
  LET m1 == Log(m, R("move_layer", layer, 0, get_prev(m.doc, layer), <<>>))
  IN  Do(m1, Folder_move_layer(m1.doc, layer, after_this))

configureLayerAsBackground(m, layer) ==
  LET m1 == Log(m, R("data", layer, 0, 0, m.doc.layers[layer].flags))
      m2 == Log(m1, R("set_layer_name", layer, 0, 0, m.doc.layers[layer].name))
      m3 == Log(m2, R("move_layer", layer, 0, get_prev(m.doc, layer), <<>>))
  IN  Do(m3, configureAsBackground(m3.doc, layer))

\* MID(0, opacity, 255)
MID(lo, x, hi) == Max(lo, Min(x, hi))

\* the body of the cel loop of backgroundFromLayer for one cel
BackgroundFromCel(m, layer, id, bgcolor) ==
  IF ~Running(m) THEN m
  ELSE LET cel == CelById(m.doc, id)
           m0 == ASSERT(m, cel.image > 0 /\ cel.image < Stock_size(m.doc))
           cel_image == Stock_getImage(m.doc, cel.image)
           m1 == ASSERT(m0, cel_image # NoImage)
           bg_image == image_merge(image_clear(image_new(m.doc.imgtype, m.doc.w, m.doc.h), bgcolor),
                                   cel_image, cel.x, cel.y, MID(0, cel.opacity, 255))
           m2 == setCelPosition(m1, id, 0, 0)
       IN  IF ~Running(m2) THEN m2
           ELSE IF bg_image.w = cel_image.w /\ bg_image.h = cel_image.h
           THEN LET m3 == Log(m2, R("image", cel.image, 0, 0, cel_image))
                IN  Do(m3, Stock_replaceImage(m3.doc, cel.image,
                                              image_copy(cel_image, bg_image, 0, 0)))
           ELSE replaceStockImage(m2, cel.image, bg_image)

RECURSIVE BackgroundFromCels(_, _, _, _)
BackgroundFromCels(m, layer, ids, bgcolor) ==
  IF ids = <<>> THEN m
  ELSE BackgroundFromCels(BackgroundFromCel(m, layer, Head(ids), bgcolor),
                          layer, Tail(ids), bgcolor)

\* a backgroundFromLayer that leaves the frames without a cel as they are
BackgroundLeaveFrames(m, layer, frame, bgcolor) == m

\* the loop that fills the frames without a cel
RECURSIVE BackgroundFillFrames(_, _, _, _)
BackgroundFillFrames(m, layer, frame, bgcolor) ==
  IF ~Running(m) \/ frame >= m.doc.frames THEN m
  ELSE IF getCel(m.doc, layer, frame) # NoCel
  THEN BackgroundFillFrames(m, layer, frame + 1, bgcolor)
  ELSE LET cel_image == image_clear(image_new(m.doc.imgtype, m.doc.w, m.doc.h), bgcolor)
           image_index == NextImageIndex(m)
           m1 == addImageInStock(m, cel_image)
           cel == NewCel(m1, frame, image_index)
           m2 == addCel(AllocCel(m1), layer, cel)
       IN  BackgroundFillFrames(m2, layer, frame + 1, bgcolor)

CelIds(d, layer) == [i \in 1..Len(d.layers[layer].cels) |-> d.layers[layer].cels[i].id]

backgroundFromLayer(m, layer, bgcolor) ==
  IF ~Running(m) THEN m
  ELSE LET m0 == ASSERT(m, /\ layer # NULL
                           /\ m.doc.layers[layer].type = "image"
                           /\ m.doc.layers[layer].flags.readable
                           /\ m.doc.layers[layer].flags.writable
                           /\ getBackgroundLayer(m.doc) = NULL)
           m1 == BackgroundFromCels(m0, layer, CelIds(m.doc, layer), bgcolor)
           m2 == BackgroundFillFrames(m1, layer, 0, bgcolor)
       IN  IF ~Running(m2) THEN m2 ELSE configureLayerAsBackground(m2, layer)

layerFromBackground(m) ==
  IF ~Running(m) THEN m
  ELSE LET cur == m.doc.layer
           m0 == ASSERT(m, /\ getBackgroundLayer(m.doc) # NULL
                           /\ cur # NULL
                           /\ m.doc.layers[cur].type = "image"
                           /\ m.doc.layers[cur].flags.readable
                           /\ m.doc.layers[cur].flags.writable
                           /\ m.doc.layers[cur].flags.background)
           m1 == Log(m0, R("data", cur, 0, 0, m.doc.layers[cur].flags))
           m2 == Log(m1, R("set_layer_name", cur, 0, 0, m.doc.layers[cur].name))
       IN  Do(m2, [m2.doc EXCEPT !.layers[cur].flags.background = FALSE,
                                 !.layers[cur].flags.moveable = TRUE,
                                 !.layers[cur].name = "Layer 0"])


-----------------------------------------------------------------------------
(* flattenLayers                                                             *)

\* Dirty(cel_image, image) with saveImagePixels: the pixels of cel_image that
\* differ from image, with their present colour
DirtyPixels(cel_image, image) ==
  {<<x, y, image_getpixel(cel_image, x, y)>> :
     <<x, y>> \in {p \in (0..(cel_image.w - 1)) \X (0..(cel_image.h - 1)) :
                     /\ InImage(image, p[1], p[2])
                     /\ image_getpixel(cel_image, p[1], p[2]) # image_getpixel(image, p[1], p[2])}}

\* if (!background) { ... }: the background layer is created
FlattenCreateBackground(m) ==
  LET background == m.doc.nextLayer
      m0 == Do(m, [m.doc EXCEPT !.nextLayer = @ + 1])
      m1 == Log(m0, R("add_layer", ROOT, background, 0, <<>>))
      m2 == Do(m1, Folder_add_layer(m1.doc, ROOT, background, LayerImage(ROOT, "Layer")))
      m3 == Log(m2, R("move_layer", background, 0, get_prev(m2.doc, background), <<>>))
  IN  Do(m3, configureAsBackground(m3.doc, background))

\* the body of the frame loop for one frame
FlattenFrame(m, background, frame, bgcolor) ==
  LET image == layer_render(m.doc, ROOT,
                            image_clear(image_new(m.doc.imgtype, m.doc.w, m.doc.h), bgcolor), frame)
      cel == getCel(m.doc, background, frame)
  IN  IF cel # NoCel
      THEN LET cel_image == Stock_getImage(m.doc, cel.image)
               m1 == ASSERT(m, cel_image # NoImage)
               m2 == Log(m1, R("dirty", cel.image, 0, 0, DirtyPixels(cel_image, image)))
           IN  Do(m2, Stock_replaceImage(m2.doc, cel.image, image_copy(cel_image, image, 0, 0)))
      ELSE LET image_index == NextImageIndex(m)
               m1 == Do(m, Stock_addImage(m.doc, image))
               new_cel == NewCel(m1, frame, image_index)
               m2 == AllocCel(m1)
           IN  Do(m2, Layer_addCel(m2.doc, background, new_cel))

RECURSIVE FlattenFrames(_, _, _, _)
FlattenFrames(m, background, frame, bgcolor) ==
  IF ~Running(m) \/ frame >= m.doc.frames THEN m
  ELSE FlattenFrames(FlattenFrame(m, background, frame, bgcolor),
                     background, frame + 1, bgcolor)

\* a flattenLayers that leaves the old layers in the root folder
FlattenKeepLayers(m, background, layers) == m

\* the loop that removes the layers of the root folder other than the background
RECURSIVE FlattenRemoveLayers(_, _, _)
FlattenRemoveLayers(m, background, layers) ==
  IF ~Running(m) \/ layers = <<>> THEN m
  ELSE IF Head(layers) = background
  THEN FlattenRemoveLayers(m, background, Tail(layers))
  ELSE LET m1 == Log(m, RemoveLayerRecord(m.doc, Head(layers)))
           m2 == Do(m1, Folder_remove_layer(m1.doc, Head(layers)))
       IN  FlattenRemoveLayers(m2, background, Tail(layers))

flattenLayers(m, bgcolor) ==
  IF ~Running(m) THEN m
  ELSE LET old == getBackgroundLayer(m.doc)
           background == IF old = NULL THEN m.doc.nextLayer ELSE old
           m1 == IF old = NULL THEN FlattenCreateBackground(m) ELSE m
           m2 == FlattenFrames(m1, background, 0, bgcolor)
           m3 == IF Running(m2) /\ m2.doc.layer # background
                 THEN LET m2a == Log(m2, R("set_layer", m2.doc.layer, 0, 0, <<>>))
                      IN  Do(m2a, Sprite_setCurrentLayer(m2a.doc, background))
                 ELSE m2
       IN  IF ~Running(m3) THEN m3
           ELSE FlattenRemoveLayers(m3, background, m3.doc.layers[ROOT].layers)

-----------------------------------------------------------------------------
(* Frames                                                                    *)

\* a copyPreviousFrame whose new cel references the image of the previous cel
copyPreviousFrameSameImage(m, layer, frame) ==
  IF ~Running(m) THEN m
  ELSE LET src_cel == getCel(m.doc, layer, frame - 1)
       IN  IF src_cel = NoCel THEN m
           ELSE addCel(AllocCel(m), layer,
                       [NewCel(m, frame, src_cel.image) EXCEPT
                          !.x = src_cel.x, !.y = src_cel.y, !.opacity = src_cel.opacity])

copyPreviousFrame(m, layer, frame) ==
  IF ~Running(m) THEN m
  ELSE LET m0 == ASSERT(m, frame > 0)
           src_cel == getCel(m.doc, layer, frame - 1)
           src_image == IF src_cel # NoCel THEN Stock_getImage(m.doc, src_cel.image)
                        ELSE NoImage
       IN  IF ~Running(m0) \/ src_image = NoImage THEN m0
           ELSE LET image_index == NextImageIndex(m0)
                    m1 == addImageInStock(m0, src_image)
                    dst_cel == [NewCel(m1, frame, image_index) EXCEPT
                                  !.x = src_cel.x, !.y = src_cel.y,
                                  !.opacity = src_cel.opacity]
                IN  addCel(AllocCel(m1), layer, dst_cel)

\* for (int c=getTotalFrames()-1; c>=frame; --c)
RECURSIVE NewFrameDisplace(_, _, _, _)
NewFrameDisplace(m, layer, c, frame) ==
  IF ~Running(m) \/ c < frame THEN m
  ELSE LET cel == getCel(m.doc, layer, c)
           m1 == IF cel # NoCel THEN setCelFramePosition(m, cel.id, cel.frame + 1) ELSE m
       IN  NewFrameDisplace(m1, layer, c - 1, frame)

RECURSIVE newFrameForLayer(_, _, _)
RECURSIVE newFrameForLayers(_, _, _)
newFrameForLayer(m, layer, frame) ==
  IF ~Running(m) THEN m
  ELSE LET m0 == ASSERT(m, layer # NULL /\ frame >= 0)
       IN  IF ~Running(m0) THEN m0
           ELSE IF m.doc.layers[layer].type = "image"
           THEN copyPreviousFrame(NewFrameDisplace(m0, layer, m.doc.frames - 1, frame),
                                  layer, frame)
           ELSE newFrameForLayers(m0, m.doc.layers[layer].layers, frame)
newFrameForLayers(m, layers, frame) ==
  IF layers = <<>> THEN m
  ELSE newFrameForLayers(newFrameForLayer(m, Head(layers), frame), Tail(layers), frame)

newFrame(m) ==
  IF ~Running(m) THEN m
  ELSE LET m1 == newFrameForLayer(m, ROOT, m.doc.frame + 1)
           m2 == IF Running(m1) THEN setNumberOfFrames(m1, m1.doc.frames + 1) ELSE m1
       IN  IF Running(m2) THEN setCurrentFrame(m2, m2.doc.frame + 1) ELSE m2

\* a removeFrameOfLayer that leaves the later cels where they are
RemoveFrameNoDisplace(m, layer, frame) == m

\* for (++frame; frame<getTotalFrames(); ++frame)
RECURSIVE RemoveFrameDisplace(_, _, _)
RemoveFrameDisplace(m, layer, frame) ==
  IF ~Running(m) \/ frame >= m.doc.frames THEN m
  ELSE LET cel == getCel(m.doc, layer, frame)
           m1 == IF cel # NoCel THEN setCelFramePosition(m, cel.id, cel.frame - 1) ELSE m
       IN  RemoveFrameDisplace(m1, layer, frame + 1)

RECURSIVE removeFrameOfLayer(_, _, _)
RECURSIVE removeFrameOfLayers(_, _, _)
removeFrameOfLayer(m, layer, frame) ==
  IF ~Running(m) THEN m
  ELSE LET m0 == ASSERT(m, layer # NULL /\ frame >= 0)
       IN  IF ~Running(m0) THEN m0
           ELSE IF m.doc.layers[layer].type = "image"
           THEN LET cel == getCel(m.doc, layer, frame)
                    m1 == IF cel # NoCel THEN removeCel(m0, layer, cel) ELSE m0
                IN  RemoveFrameDisplace(m1, layer, frame + 1)
           ELSE removeFrameOfLayers(m0, m.doc.layers[layer].layers, frame)
removeFrameOfLayers(m, layers, frame) ==
  IF layers = <<>> THEN m
  ELSE removeFrameOfLayers(removeFrameOfLayer(m, Head(layers), frame), Tail(layers), frame)

\* a removeFrame that leaves the current frame where it is
removeFrameKeepCurrent(m, frame) ==
  LET m1 == removeFrameOfLayer(ASSERT(m, frame >= 0), ROOT, frame)
  IN  IF ~Running(m1) THEN m1 ELSE setNumberOfFrames(m1, m1.doc.frames - 1)

removeFrame(m, frame) ==
  IF ~Running(m) THEN m
  ELSE LET m0 == ASSERT(m, frame >= 0)
           m1 == removeFrameOfLayer(m0, ROOT, frame)
       IN  IF ~Running(m1) THEN m1
           ELSE LET newTotalFrames == m1.doc.frames - 1
                    m2 == IF m1.doc.frame >= newTotalFrames
                          THEN setCurrentFrame(m1, newTotalFrames - 1)
                          ELSE m1
                IN  setNumberOfFrames(m2, newTotalFrames)

\* for (int c=frame; c<before_frame-1; c++)
RECURSIVE MoveDurationsToFuture(_, _, _)
MoveDurationsToFuture(m, c, before_frame) ==
  IF ~Running(m) \/ c >= before_frame - 1 THEN m
  ELSE MoveDurationsToFuture(
         setFrameDuration(m, c, Sprite_getFrameDuration(m.doc, c + 1)), c + 1, before_frame)

\* for (int c=frame; c>before_frame; c--)
RECURSIVE MoveDurationsToPast(_, _, _)
MoveDurationsToPast(m, c, before_frame) ==
  IF ~Running(m) \/ c <= before_frame THEN m
  ELSE MoveDurationsToPast(
         setFrameDuration(m, c, Sprite_getFrameDuration(m.doc, c - 1)), c - 1, before_frame)

\* a renumbering that moves only the cels strictly between the two frames
MovedFrameStrictlyBetween(cel_frame, frame, before_frame) ==
  IF cel_frame = frame
  THEN (IF frame < before_frame THEN before_frame - 1 ELSE before_frame)
  ELSE IF cel_frame > frame /\ cel_frame < before_frame THEN cel_frame - 1
  ELSE IF cel_frame > before_frame /\ cel_frame < frame THEN cel_frame + 1
  ELSE cel_frame

\* the new frame index of a cel under moveFrameBeforeLayer
MovedFrame(cel_frame, frame, before_frame) ==
  IF frame < before_frame
  THEN IF cel_frame = frame THEN before_frame - 1
       ELSE IF cel_frame > frame /\ cel_frame < before_frame THEN cel_frame - 1
       ELSE cel_frame
  ELSE IF before_frame < frame
  THEN IF cel_frame = frame THEN before_frame
       ELSE IF cel_frame >= before_frame /\ cel_frame < frame THEN cel_frame + 1
       ELSE cel_frame
  ELSE cel_frame

\* the cel loop of moveFrameBeforeLayer, in the order of the cel list
RECURSIVE MoveFrameCels(_, _, _, _)
MoveFrameCels(m, ids, frame, before_frame) ==
  IF ~Running(m) \/ ids = <<>> THEN m
  ELSE LET cel == CelById(m.doc, Head(ids))
           new_frame == MovedFrame(cel.frame, frame, before_frame)
           m1 == IF cel.frame # new_frame THEN setCelFramePosition(m, cel.id, new_frame)
                 ELSE m
       IN  MoveFrameCels(m1, Tail(ids), frame, before_frame)

RECURSIVE moveFrameBeforeLayer(_, _, _, _)
RECURSIVE moveFrameBeforeLayers(_, _, _, _)
moveFrameBeforeLayer(m, layer, frame, before_frame) ==
  IF ~Running(m) THEN m
  ELSE IF m.doc.layers[layer].type = "image"
  THEN MoveFrameCels(m, CelIds(m.doc, layer), frame, before_frame)
  ELSE moveFrameBeforeLayers(m, m.doc.layers[layer].layers, frame, before_frame)
moveFrameBeforeLayers(m, layers, frame, before_frame) ==
  IF layers = <<>> THEN m
  ELSE moveFrameBeforeLayers(moveFrameBeforeLayer(m, Head(layers), frame, before_frame),
                             Tail(layers), frame, before_frame)

moveFrameBefore(m, frame, before_frame) ==
  IF ~Running(m) THEN m
  ELSE IF /\ frame # before_frame
          /\ frame >= 0 /\ frame < m.doc.frames
          /\ before_frame >= 0 /\ before_frame < m.doc.frames
  THEN LET frlen_aux == Sprite_getFrameDuration(m.doc, frame)
           m1 == IF frame < before_frame
                 THEN setFrameDuration(MoveDurationsToFuture(m, frame, before_frame),
                                       before_frame - 1, frlen_aux)
                 ELSE setFrameDuration(MoveDurationsToPast(m, frame, before_frame),
                                       before_frame, frlen_aux)
       IN  moveFrameBeforeLayer(m1, ROOT, frame, before_frame)
  ELSE m


-----------------------------------------------------------------------------
(* Mask operations                                                           *)

getCurrentCel(d) ==
  IF d.layer # NULL /\ d.layers[d.layer].type = "image"
  THEN getCel(d, d.layer, d.frame)
  ELSE NoCel

getCelImage(d, cel) ==
  IF cel # NoCel /\ cel.image >= 0 /\ cel.image < Stock_size(d)
  THEN Stock_getImage(d, cel.image)
  ELSE NoImage

\* a loop that puts bgcolor at every place of the mask, set bit or not
ClearMaskedWholeRect(image, mask, offset_x, offset_y, bgcolor) ==
  [image EXCEPT !.px = [y \in 1..image.h |-> [x \in 1..image.w |->
      LET u == (x - 1) - offset_x
          v == (y - 1) - offset_y
      IN  IF u >= 0 /\ u < mask.w /\ v >= 0 /\ v < mask.h
          THEN bgcolor
          ELSE image.px[y][x]]]]

\* the loop over the mask bitmap: every set bit puts bgcolor at its place in
\* the image (image_putpixel clips to the image)
ClearMasked(image, mask, offset_x, offset_y, bgcolor) ==
  [image EXCEPT !.px = [y \in 1..image.h |-> [x \in 1..image.w |->
      LET u == (x - 1) - offset_x
          v == (y - 1) - offset_y
      IN  IF u >= 0 /\ u < mask.w /\ v >= 0 /\ v < mask.h /\ mask.bits[v+1][u+1]
          THEN bgcolor
          ELSE image.px[y][x]]]]

clearMask(m, bgcolor) ==
  IF ~Running(m) THEN m
  ELSE LET cel == getCurrentCel(m.doc)
           image == getCelImage(m.doc, cel)
           mask == m.doc.mask
       IN  IF cel = NoCel \/ image = NoImage THEN m
           ELSE IF mask_is_empty(mask)
           THEN IF m.doc.layers[m.doc.layer].flags.background
                THEN LET m1 == Log(m, R("image", cel.image, 0, 0, image))
                     IN  Do(m1, Stock_replaceImage(m1.doc, cel.image,
                                                   image_clear(image, bgcolor)))
                ELSE removeCel(m, m.doc.layer, cel)
           ELSE LET offset_x == mask.x - cel.x
                    offset_y == mask.y - cel.y
                    x1 == Max(0, offset_x)
                    y1 == Max(0, offset_y)
                    x2 == Min(image.w - 1, offset_x + mask.w - 1)
                    y2 == Min(image.h - 1, offset_y + mask.h - 1)
                IN  IF x1 > x2 \/ y1 > y2 THEN m
                    ELSE LET m1 == Log(m, R("image", cel.image, x1, y1,
                                            image_crop(image, x1, y1,
                                                       x2 - x1 + 1, y2 - y1 + 1, 0)))
                         IN  Do(m1, Stock_replaceImage(m1.doc, cel.image,
                                      ClearMasked(image, mask, offset_x, offset_y, bgcolor)))

\* mask_copy(dst, src): the region of src, under the name of dst
mask_copy(dst, src) == [src EXCEPT !.name = dst.name]

copyToCurrentMask(m, mask) ==
  LET m1 == Log(m, R("set_mask", 0, 0, 0, m.doc.mask))
  IN  Do(m1, [m1.doc EXCEPT !.mask = mask_copy(@, mask)])

setMaskPosition(m, x, y) ==
  LET m1 == Log(m, R("mask_x", 0, m.doc.mask.x, 0, <<>>))
      m2 == Log(m1, R("mask_y", 0, m.doc.mask.y, 0, <<>>))
  IN  Do(m2, [m2.doc EXCEPT !.mask.x = x, !.mask.y = y])

\* a deselectMask that keeps the mask deselected before in the repository
deselectMaskKeepOld(m) ==
  IF ~Running(m) THEN m
  ELSE LET m2 == Do(m, [m.doc EXCEPT !.masks =
                          Append(@, [m.doc.mask EXCEPT !.name = "*deselected*"])])
           m3 == Log(m2, R("set_mask", 0, 0, 0, m2.doc.mask))
       IN  Do(m3, [m3.doc EXCEPT !.mask = mask_none(@)])

deselectMask(m) ==
  IF ~Running(m) THEN m
  ELSE LET pos == Sprite_requestMask(m.doc, "*deselected*")
           m1 == IF pos # 0 THEN Do(m, [m.doc EXCEPT !.masks = RemoveAt(@, pos)]) ELSE m
           m2 == Do(m1, [m1.doc EXCEPT !.masks =
                           Append(@, [m1.doc.mask EXCEPT !.name = "*deselected*"])])
           m3 == Log(m2, R("set_mask", 0, 0, 0, m2.doc.mask))
       IN  Do(m3, [m3.doc EXCEPT !.mask = mask_none(@)])

-----------------------------------------------------------------------------
(* Size and image type of the sprite, crop, flip, paste                      *)

setSpriteSize(m, w, h) ==
  LET m0 == ASSERT(ASSERT(m, w > 0), h > 0)
      m1 == Log(m0, R("set_size", m0.doc.w, m0.doc.h, 0, <<>>))
  IN  Do(m1, [m1.doc EXCEPT !.w = w, !.h = h])

\* a cropCel that takes the window at (x,y) of the image, wherever the cel is
cropCelOfImage(m, cel, x, y, w, h, bgcolor) ==
  IF ~Running(m) THEN m
  ELSE LET c == CelById(m.doc, cel)
           cel_image == Stock_getImage(m.doc, c.image)
           m1 == replaceStockImage(m, c.image, image_crop(cel_image, x, y, w, h, bgcolor))
       IN  setCelPosition(m1, cel, x, y)

cropCel(m, cel, x, y, w, h, bgcolor) ==
  IF ~Running(m) THEN m
  ELSE LET c == CelById(m.doc, cel)
           cel_image == Stock_getImage(m.doc, c.image)
           m0 == ASSERT(m, cel_image # NoImage)
           new_image == image_crop(cel_image, x - c.x, y - c.y, w, h, bgcolor)
           m1 == replaceStockImage(m0, c.image, new_image)
       IN  setCelPosition(m1, cel, x, y)

RECURSIVE CropCels(_, _, _, _, _, _, _)
CropCels(m, ids, x, y, w, h, bgcolor) ==
  IF ids = <<>> THEN m
  ELSE CropCels(cropCel(m, Head(ids), x, y, w, h, bgcolor), Tail(ids), x, y, w, h, bgcolor)

cropLayer(m, layer, x, y, w, h, bgcolor) ==
  IF ~Running(m) \/ m.doc.layers[layer].type # "image" THEN m
  ELSE CropCels(m, CelIds(m.doc, layer), x, y, w, h,
                IF m.doc.layers[layer].flags.background THEN bgcolor ELSE 0)

\* the cel loop of displaceLayers
RECURSIVE DisplaceCels(_, _, _, _)
DisplaceCels(m, ids, dx, dy) ==
  IF ids = <<>> \/ ~Running(m) THEN m
  ELSE LET cel == CelById(m.doc, Head(ids))
       IN  DisplaceCels(setCelPosition(m, cel.id, cel.x + dx, cel.y + dy),
                        Tail(ids), dx, dy)

RECURSIVE DisplaceSeq(_, _, _, _)
RECURSIVE displaceLayers(_, _, _, _)
DisplaceSeq(m, ls, dx, dy) ==
  IF ls = <<>> THEN m
  ELSE DisplaceSeq(displaceLayers(m, Head(ls), dx, dy), Tail(ls), dx, dy)
displaceLayers(m, layer, dx, dy) ==
  IF ~Running(m) THEN m
  ELSE IF m.doc.layers[layer].type = "image"
  THEN DisplaceCels(m, CelIds(m.doc, layer), dx, dy)
  ELSE DisplaceSeq(m, m.doc.layers[layer].layers, dx, dy)

cropSprite(m, x, y, w, h, bgcolor) ==
  LET m1 == setSpriteSize(m, w, h)
      m2 == displaceLayers(m1, ROOT, -x, -y)
      background_layer == getBackgroundLayer(m2.doc)
      m3 == IF background_layer # NULL
            THEN cropLayer(m2, background_layer, 0, 0, m2.doc.w, m2.doc.h, bgcolor)
            ELSE m2
  IN  IF ~mask_is_empty(m3.doc.mask)
      THEN setMaskPosition(m3, m3.doc.mask.x - x, m3.doc.mask.y - y)
      ELSE m3

\* Sprite::render(image, 0, 0): the layers of the current frame
Sprite_render(d, image) == layer_render(d, ROOT, image, d.frame)

\* the frame loop of autocropSprite: the points of the rendered frames that
\* differ from the top-left pixel of their frame (x1, y1, x2, y2 are the
\* bounds of these points)
AutocropPoints(d) ==
  UNION {LET image == Sprite_render(Sprite_setCurrentFrame(d, frame),
                                    image_clear(image_new(d.imgtype, d.w, d.h), 0))
         IN  image_shrink_rect(image, image_getpixel(image, 0, 0)) :
         frame \in 0..(d.frames - 1)}

SetMin(S) == CHOOSE a \in S : \A b \in S : a <= b

SetMax(S) == CHOOSE a \in S : \A b \in S : a >= b

\* an autocropSprite that leaves the current frame where the frame loop ends
autocropSpriteLeaveFrame(m, bgcolor) ==
  IF ~Running(m) THEN m
  ELSE LET pts == AutocropPoints(m.doc)
           m1 == Do(m, Sprite_setCurrentFrame(m.doc, m.doc.frames - 1))
       IN  IF pts = {} THEN m1
           ELSE cropSprite(m1, SetMin({p[1] : p \in pts}), SetMin({p[2] : p \in pts}),
                           SetMax({p[1] : p \in pts}) - SetMin({p[1] : p \in pts}) + 1,
                           SetMax({p[2] : p \in pts}) - SetMin({p[2] : p \in pts}) + 1,
                           bgcolor)

\* the current frame is set for every frame without a record and set back
autocropSprite(m, bgcolor) ==
  IF ~Running(m) THEN m
  ELSE LET old_frame == m.doc.frame
           pts == AutocropPoints(m.doc)
           m1 == Do(m, Sprite_setCurrentFrame(
                         Sprite_setCurrentFrame(m.doc, m.doc.frames - 1), old_frame))
       IN  IF pts = {} THEN m1
           ELSE LET x1 == SetMin({p[1] : p \in pts})
                    y1 == SetMin({p[2] : p \in pts})
                    x2 == SetMax({p[1] : p \in pts})
                    y2 == SetMax({p[2] : p \in pts})
                IN  cropSprite(m1, x1, y1, x2 - x1 + 1, y2 - y1 + 1, bgcolor)

\* the loop of setImgType over the stock
RECURSIVE ConvertStock(_, _, _)
ConvertStock(m, c, new_imgtype) ==
  IF ~Running(m) \/ c >= Stock_size(m.doc) THEN m
  ELSE LET old_image == Stock_getImage(m.doc, c)
       IN  IF old_image = NoImage THEN ConvertStock(m, c + 1, new_imgtype)
           ELSE ConvertStock(
                  replaceStockImage(m, c,
                    convert_imgtype(old_image, new_imgtype,
                                    getBackgroundLayer(m.doc) # NULL)),
                  c + 1, new_imgtype)

\* undo_remove_palette for every palette of the sprite
RECURSIVE SavePalettes(_, _)
SavePalettes(m, palettes) ==
  IF palettes = <<>> THEN m
  ELSE SavePalettes(Log(m, R("remove_palette", 0, 0, 0, Head(palettes))), Tail(palettes))

setImgType(m, new_imgtype) ==
  IF ~Running(m) \/ m.doc.imgtype = new_imgtype THEN m
  ELSE LET m1 == Log(m, R("stock_imgtype", 0, 0, 0, m.doc.stockImgtype))
           m2 == Do(m1, [m1.doc EXCEPT !.stockImgtype = new_imgtype])
           m3 == ConvertStock(m2, 0, new_imgtype)
           m4 == Log(m3, R("set_imgtype", 0, 0, 0, m3.doc.imgtype))
           m5 == Do(m4, [m4.doc EXCEPT !.imgtype = new_imgtype])
       IN  IF new_imgtype = "grayscale"
           THEN LET m6 == SavePalettes(m5, m5.doc.palettes)
                IN  Do(m6, Sprite_setPalette(Sprite_resetPalettes(m6.doc), GrayscalePalette))
           ELSE m5

\* a flipImage that journals a flip over both axes as one horizontal flip
flipImageOneRecord(m, image, x1, y1, x2, y2, flip_horizontal, flip_vertical) ==
  LET m1 == IF flip_horizontal
            THEN Log(m, R("flip", image, 0, 0, <<x1, y1, x2, y2, TRUE>>))
            ELSE m
      m2 == IF flip_vertical /\ ~flip_horizontal
            THEN Log(m1, R("flip", image, 0, 0, <<x1, y1, x2, y2, FALSE>>))
            ELSE m1
  IN  Do(m2, Stock_replaceImage(m2.doc, image,
               FlipPixels(Stock_getImage(m2.doc, image), x1, y1, x2, y2,
                          flip_horizontal, flip_vertical)))

\* image is the stock index of the Image object
flipImage(m, image, x1, y1, x2, y2, flip_horizontal, flip_vertical) ==
  LET m1 == IF flip_horizontal
            THEN Log(m, R("flip", image, 0, 0, <<x1, y1, x2, y2, TRUE>>))
            ELSE m
      m2 == IF flip_vertical
            THEN Log(m1, R("flip", image, 0, 0, <<x1, y1, x2, y2, FALSE>>))
            ELSE m1
  IN  Do(m2, Stock_replaceImage(m2.doc, image,
               FlipPixels(Stock_getImage(m2.doc, image), x1, y1, x2, y2,
                          flip_horizontal, flip_vertical)))

pasteImage(m, src_image, x, y, opacity) ==
  IF ~Running(m) THEN m
  ELSE LET layer == m.doc.layer
           m0 == ASSERT(m, /\ layer # NULL
                           /\ m.doc.layers[layer].type = "image"
                           /\ m.doc.layers[layer].flags.readable
                           /\ m.doc.layers[layer].flags.writable)
           cel == IF Running(m0) THEN getCel(m.doc, layer, m.doc.frame) ELSE NoCel
           m1 == ASSERT(m0, cel # NoCel)
           cel_image == Stock_getImage(m.doc, cel.image)
           cel_image2 == image_merge(cel_image, src_image, x - cel.x, y - cel.y, opacity)
       IN  replaceStockImage(m1, cel.image, cel_image2)

-----------------------------------------------------------------------------
(* Initial documents                                                         *)

Img(a, b, c, e) == [imgtype |-> "indexed", w |-> 2, h |-> 2, px |-> <<<<a, b>>, <<c, e>>>>]

CelAt(id, frame, image, x, y) == [cel_new(id, frame, image) EXCEPT !.x = x, !.y = y]

RootFolder(kids) == LayerFolder(NULL, "root", kids)

BackgroundLayer(cels) ==
  [LayerImage(ROOT, "Background") EXCEPT !.flags = Flags(TRUE, FALSE), !.cels = cels]

ImageLayer(parent, name, cels) == [LayerImage(parent, name) EXCEPT !.cels = cels]

SomeMask == [name |-> "", x |-> 1, y |-> 0, w |-> 1, h |-> 2, bits |-> <<<<TRUE>>, <<FALSE>>>>]

OtherMask == [name |-> "", x |-> 0, y |-> 1, w |-> 2, h |-> 1, bits |-> <<<<TRUE, TRUE>>>>]

\* the palettes of a sprite, one for the frame it starts at
DefaultPalettes == <<[frame |-> 0, name |-> "default"]>>

\* a background and one transparent layer, two frames
DocBackground ==
  [w |-> 2, h |-> 2, frames |-> 2, frame |-> 0, frlens |-> <<100, 200>>, layer |-> 3,
   layers |-> (1 :> RootFolder(<<2, 3>>)
            @@ 2 :> BackgroundLayer(<<CelAt(1, 0, 1, 0, 0), CelAt(2, 1, 2, 0, 0)>>)
            @@ 3 :> ImageLayer(ROOT, "Layer 1", <<CelAt(3, 0, 3, 1, 0)>>)),
   stock |-> <<NoImage, Img(1, 0, 1, 1), Img(1, 0, 0, 1), Img(0, 1, 0, 0)>>,
   mask |-> NoMask, masks |-> <<>>, nextCel |-> 4, nextLayer |-> 4,
   imgtype |-> "indexed", stockImgtype |-> "indexed", palettes |-> DefaultPalettes]

\* two transparent layers whose cels share one stock image, a selection, and
\* in the repository the selection that was deselected before
DocShared ==
  [w |-> 2, h |-> 2, frames |-> 2, frame |-> 0, frlens |-> <<100, 200>>, layer |-> 2,
   layers |-> (1 :> RootFolder(<<2, 3>>)
            @@ 2 :> ImageLayer(ROOT, "Layer 1", <<CelAt(1, 0, 1, 0, 0)>>)
            @@ 3 :> ImageLayer(ROOT, "Layer 2", <<CelAt(2, 1, 1, 0, 1)>>)),
   stock |-> <<NoImage, Img(1, 0, 1, 1)>>,
   mask |-> SomeMask, masks |-> <<[OtherMask EXCEPT !.name = "*deselected*"]>>,
   nextCel |-> 3, nextLayer |-> 4,
   imgtype |-> "indexed", stockImgtype |-> "indexed", palettes |-> DefaultPalettes]

\* a layer inside a folder, three frames of which the last is the current
\* one, two cels of one layer on one image
DocFolder ==
  [w |-> 2, h |-> 2, frames |-> 3, frame |-> 2, frlens |-> <<100, 200, 300>>, layer |-> 4,
   layers |-> (1 :> RootFolder(<<2, 3>>)
            @@ 2 :> ImageLayer(ROOT, "Layer 1",
                               <<CelAt(1, 0, 1, 0, 0), CelAt(2, 2, 2, 0, 0)>>)
            @@ 3 :> LayerFolder(ROOT, "Set 1", <<4>>)
            @@ 4 :> ImageLayer(3, "Layer 2",
                               <<CelAt(3, 1, 3, 0, 0), CelAt(4, 2, 3, 1, 1)>>)),
   stock |-> <<NoImage, Img(1, 0, 1, 1), Img(1, 0, 0, 1), Img(0, 1, 0, 0)>>,
   mask |-> NoMask, masks |-> <<>>, nextCel |-> 5, nextLayer |-> 5,
   imgtype |-> "indexed", stockImgtype |-> "indexed", palettes |-> DefaultPalettes]

\* a single frame, a background only
DocSingle ==
  [w |-> 2, h |-> 2, frames |-> 1, frame |-> 0, frlens |-> <<100>>, layer |-> 2,
   layers |-> (1 :> RootFolder(<<2>>)
            @@ 2 :> BackgroundLayer(<<CelAt(1, 0, 1, 0, 0)>>)),
   stock |-> <<NoImage, Img(1, 0, 1, 1)>>,
   mask |-> OtherMask, masks |-> <<>>, nextCel |-> 2, nextLayer |-> 3,
   imgtype |-> "indexed", stockImgtype |-> "indexed", palettes |-> DefaultPalettes]

\* one transparent layer with one cel on a blank image, a selection that
\* lies outside of the canvas
DocBlank ==
  [w |-> 2, h |-> 2, frames |-> 2, frame |-> 0, frlens |-> <<100, 200>>, layer |-> 2,
   layers |-> (1 :> RootFolder(<<2>>)
            @@ 2 :> ImageLayer(ROOT, "Layer 1", <<CelAt(1, 0, 1, 0, 0)>>)),
   stock |-> <<NoImage, Img(0, 0, 0, 0)>>,
   mask |-> [name |-> "", x |-> 2, y |-> 0, w |-> 1, h |-> 1, bits |-> <<<<TRUE>>>>],
   masks |-> <<>>, nextCel |-> 2, nextLayer |-> 3,
   imgtype |-> "indexed", stockImgtype |-> "indexed", palettes |-> DefaultPalettes]

\* the same with the second frame current: the current layer has no cel there
DocBlankLater == [DocBlank EXCEPT !.frame = 1]

\* the sprite with a folder, the first frame current: the layer inside the
\* folder has no cel there
DocFolderFirst == [DocFolder EXCEPT !.frame = 0]

\* a background only, two frames whose cels are linked to one stock image
DocLinked ==
  [DocSingle EXCEPT !.frames = 2, !.frlens = <<100, 200>>,
                    !.layers[2].cels = <<CelAt(1, 0, 1, 0, 0), CelAt(2, 1, 1, 0, 0)>>,
                    !.nextCel = 3]

InitDocs ==
  {DocBackground, DocShared, DocFolder, DocFolderFirst, DocSingle, DocBlank, DocBlankLater,
   DocLinked}

Masks == {SomeMask, OtherMask}

\* the rectangles (x, y, w, h) the sprite is cropped to: a column of the
\* canvas, the canvas moved one column to the right, the lower row
CropRects == {<<1, 0, 1, 2>>, <<-1, 0, 2, 2>>, <<0, 1, 2, 1>>}

ImgTypes == {"rgb", "grayscale", "indexed"}

\* the rectangles (x1, y1, x2, y2) of an image that are flipped: the whole
\* image, its first row and its last column (a rectangle lies inside the
\* image)
FlipRects(image) ==
  {<<0, 0, image.w - 1, image.h - 1>>, <<0, 0, image.w - 1, 0>>,
   <<image.w - 1, 0, image.w - 1, image.h - 1>>}

\* the image that is pasted and the places it is pasted at
PastedImage == Img(0, 1, 1, 0)

PastePlaces == {<<0, 0>>, <<1, 1>>}

\* pixel values: 0 is the transparent colour
Colors == {0, 1}

-----------------------------------------------------------------------------
(* State machine                                                             *)

NoTxn == [state |-> "none", committed |-> FALSE, enabledFlag |-> FALSE, status |-> "ok",
          limited |-> FALSE, fuel |-> 0, nops |-> 0, nested |-> FALSE]

\* the stock by index: NULL slots at the end hold nothing
TrimStock(st) ==
  LET live == {i \in 1..Len(st) : st[i] # NoImage}
  IN  IF live = {} THEN <<>>
      ELSE SubSeq(st, 1, CHOOSE i \in live : \A j \in live : j <= i)

CelView(c) == [frame |-> c.frame, x |-> c.x, y |-> c.y, opacity |-> c.opacity,
               image |-> c.image]

LayerView(L) ==
  [type |-> L.type, parent |-> L.parent, flags |-> L.flags, name |-> L.name,
   layers |-> L.layers, cels |-> {CelView(L.cels[i]) : i \in 1..Len(L.cels)}]

\* what is observed of a document: the layer tree, the set of cels of each
\* layer, the stock by index, the mask, the frames and their durations, the
\* current frame and layer (object allocators and the order of a cel list
\* are left out)
View(d) ==
  [w |-> d.w, h |-> d.h, frames |-> d.frames, frlens |-> d.frlens, frame |-> d.frame,
   layer |-> d.layer, mask |-> d.mask, imgtype |-> d.imgtype,
   stockImgtype |-> d.stockImgtype, palettes |-> Range(d.palettes),
   layers |-> [l \in DOMAIN d.layers |-> LayerView(d.layers[l])],
   stock |-> TrimStock(d.stock)]

NoGroup == [label |-> "", recs |-> <<>>]

\* a new UndoHistory: nothing to undo or to redo
UndoHistory(enabled) ==
  [enabled |-> enabled, isOpen |-> FALSE, label |-> "", open |-> <<>>,
   groups |-> <<>>, redo |-> <<>>]

\* the document d after one earlier committed transaction (the duration of
\* the first frame was changed): its group is in the journal
Edited(d) ==
  LET m0 == UndoTransaction([doc |-> d, undo |-> UndoHistory(TRUE), t |-> NoTxn],
                            "Frame Duration")
  IN  Destructor(commit(setFrameDuration(m0, 0, 150)))

\* a sprite document is open in the editor, with a journal that is disabled,
\* or new, or holds the group of one earlier edit; limit is the number of
\* composite operations issued at most
InitOps(limit) ==
  \E d \in InitDocs : \E enabled, edited \in BOOLEAN :
    /\ edited => enabled
    /\ LET m == IF edited THEN Edited(d)
                ELSE [doc |-> d, undo |-> UndoHistory(enabled), t |-> NoTxn]
       IN  /\ doc = m.doc
           /\ undo = m.undo
           /\ txn = NoTxn
           /\ hist = [txns |-> 0, n |-> 0, last |-> "init", op |-> "", a |-> 0, b |-> 0,
                      doc0 |-> m.doc, groups0 |-> m.undo.groups, pre |-> m.doc,
                      closed |-> NoGroup, faulted |-> FALSE,
                      toggles |-> 0, enabled0 |-> m.undo.enabled,
                      redo0 |-> m.undo.redo, preOpen |-> <<>>, limit |-> limit,
                      outside |-> FALSE,
                      stack |-> IF edited
                                THEN <<[doc |-> d, op |-> "setFrameDuration",
                                        a |-> 0, b |-> 150]>>
                                ELSE <<>>]

\* a behaviour issues at most MaxOps composite operations
Init == InitOps(MaxOps)

\* a behaviour issues up to MaxRepeat composite operations, one after the
\* other in one transaction
InitRepeat == InitOps(MaxRepeat)

M == [doc |-> doc, undo |-> undo, t |-> txn]

\* the k-th journal record of the operation fails; k < 0: none fails
Arm(k) == IF k < 0 THEN M ELSE [M EXCEPT !.t.limited = TRUE, !.t.fuel = k]

FailPoints == (0..MaxFail) \cup {-1}

\* a composite operation can be issued; none is issued on a sprite whose
\* current layer has been destroyed (what a method reads through the dangling
\* pointer is undefined)
CanOp ==
  /\ txn.state = "open"
  /\ txn.status = "ok"
  /\ ~txn.committed
  /\ ~txn.nested
  /\ hist.n < hist.limit
  /\ doc.layer = NULL \/ doc.layer \in DOMAIN doc.layers

Finish(m, name, a, b) ==
  /\ doc' = m.doc
  /\ undo' = m.undo
  /\ txn' = [m.t EXCEPT !.limited = FALSE, !.fuel = 0, !.nops = @ + 1]
  /\ hist' = [hist EXCEPT !.n = @ + 1, !.last = "op", !.op = name, !.a = a, !.b = b,
                          !.pre = doc, !.preOpen = undo.open,
                          !.outside = @ \/ (name = "removeFrame" /\ (a < 0 \/ a >= doc.frames))]

\* what is remembered of a committed transaction: the document it started
\* from and, when it issued exactly one operation, that operation (until the
\* next transaction begins)
OneOp(d0) ==
  IF txn.nops = 1 THEN [doc |-> d0, op |-> hist.op, a |-> hist.a, b |-> hist.b]
  ELSE [doc |-> d0, op |-> "", a |-> 0, b |-> 0]

\* a transaction is constructed; the journal's flag is what it was when the
\* document was opened (a flag changed during a transaction has been set back)
Begin ==
  /\ txn.state = "none"
  /\ hist.txns < MaxTxn
  /\ undo.enabled = hist.enabled0
  /\ LET m == UndoTransaction(M, "Edit")
     IN  /\ doc' = m.doc
         /\ undo' = m.undo
         /\ txn' = m.t
         /\ hist' = [hist EXCEPT !.txns = @ + 1, !.last = "begin", !.op = "", !.a = 0, !.b = 0,
                                 !.doc0 = doc, !.groups0 = undo.groups, !.pre = doc,
                                 !.redo0 = undo.redo,
                                 !.stack = [i \in DOMAIN @ |-> [@[i] EXCEPT !.op = ""]]]

Commit ==
  /\ txn.state = "open"
  /\ txn.status = "ok"
  /\ ~txn.committed
  /\ ~txn.nested
  /\ LET m == commit(M)
     IN  /\ txn' = m.t
         /\ hist' = [hist EXCEPT !.last = "commit", !.pre = doc]
         /\ UNCHANGED <<doc, undo>>

Destroy ==
  /\ txn.state = "open"
  /\ txn.status # "aborted"
  /\ ~txn.nested
  /\ LET m == Destructor(M)
     IN  /\ doc' = m.doc
         /\ undo' = m.undo
         /\ txn' = [m.t EXCEPT !.state = "none"]
         /\ hist' = [hist EXCEPT !.last = "destroy", !.op = "", !.a = 0, !.b = 0,
                       !.pre = IF txn.committed THEN doc ELSE hist.doc0,
                       !.faulted = @ \/ txn.status # "ok",
                       !.closed = IF txn.enabledFlag /\ txn.committed
                                  THEN [label |-> undo.label, recs |-> undo.open]
                                  ELSE NoGroup,
                       !.stack = IF txn.enabledFlag /\ txn.committed
                                 THEN Append(@, OneOp(hist.doc0))
                                 ELSE @]

\* the user undoes the most recent group: hist.op names the composite operation
\* of the group when the transaction issued exactly one
Undo ==
  /\ txn.state = "none"
  /\ undo.groups # <<>>
  /\ LET m == doUndo(M)
         top == hist.stack[Len(hist.stack)]
     IN  /\ doc' = m.doc
         /\ undo' = m.undo
         /\ hist' = [hist EXCEPT !.last = "undo", !.op = top.op, !.a = top.a, !.b = top.b,
                                 !.doc0 = top.doc, !.pre = doc,
                                 !.stack = SubSeq(@, 1, Len(@) - 1)]
         /\ UNCHANGED txn

\* UndoHistory::setEnabled is called while a transaction is open
SetEnabled ==
  /\ txn.state = "open"
  /\ txn.status = "ok"
  /\ hist.toggles < MaxToggle
  /\ undo' = [undo EXCEPT !.enabled = ~@]
  /\ hist' = [hist EXCEPT !.toggles = @ + 1, !.last = "toggle", !.pre = doc]
  /\ UNCHANGED <<doc, txn>>

\* a second UndoTransaction is constructed on the document while the first is
\* alive (the journal's flag is as it was at the construction of the first)
BeginNested ==
  /\ txn.state = "open"
  /\ txn.status = "ok"
  /\ ~txn.nested
  /\ undo.enabled = txn.enabledFlag
  /\ LET m == UndoTransaction(M, "Nested")
     IN  /\ doc' = m.doc
         /\ undo' = m.undo
         /\ txn' = IF m.t.status = "ok" THEN [txn EXCEPT !.nested = TRUE]
                   ELSE [txn EXCEPT !.status = m.t.status]
         /\ hist' = [hist EXCEPT !.last = "nested", !.pre = doc]

\* the second transaction (constructed with the journal disabled) is destroyed
DestroyNested ==
  /\ txn.state = "open"
  /\ txn.nested
  /\ LET m == Destructor([M EXCEPT !.t.enabledFlag = FALSE, !.t.committed = FALSE])
     IN  /\ doc' = m.doc
         /\ undo' = m.undo
         /\ txn' = [txn EXCEPT !.nested = FALSE]
         /\ hist' = [hist EXCEPT !.last = "unnested", !.pre = doc]

ImageLayers(d) == {l \in DOMAIN d.layers : d.layers[l].type = "image"}

NewLayer == \E k \in FailPoints :
  /\ CanOp
  /\ Finish(newLayer(Arm(k)), "newLayer", 0, 0)

RemoveLayer == \E k \in FailPoints : \E l \in DOMAIN doc.layers \ {ROOT} :
  /\ CanOp
  /\ Finish(removeLayer(Arm(k), l), "removeLayer", l, 0)

MoveLayerAfter == \E k \in FailPoints : \E l \in DOMAIN doc.layers \ {ROOT} :
  \E after \in Range(doc.layers[doc.layers[l].parent].layers) \cup {NULL} :
    /\ CanOp
    /\ after # l
    /\ Finish(moveLayerAfter(Arm(k), l, after), "moveLayerAfter", l, after)

\* a layer of the root folder becomes the background: the background is the
\* bottom layer of the root folder
BackgroundFromLayer == \E k \in FailPoints : \E l \in ImageLayers(doc) : \E c \in Colors :
  /\ CanOp
  /\ getBackgroundLayer(doc) = NULL
  /\ doc.layers[l].parent = ROOT
  /\ Finish(backgroundFromLayer(Arm(k), l, c), "backgroundFromLayer", l, c)

LayerFromBackground == \E k \in FailPoints :
  /\ CanOp
  /\ doc.layer # NULL
  /\ doc.layer = getBackgroundLayer(doc)
  /\ Finish(layerFromBackground(Arm(k)), "layerFromBackground", 0, 0)

FlattenLayers == \E k \in FailPoints : \E c \in Colors :
  /\ CanOp
  /\ Finish(flattenLayers(Arm(k), c), "flattenLayers", c, 0)

NewFrame == \E k \in FailPoints :
  /\ CanOp
  /\ doc.frames < MaxFrames
  /\ Finish(newFrame(Arm(k)), "newFrame", 0, 0)

RemoveFrame == \E k \in FailPoints : \E f \in (-1)..doc.frames :
  /\ CanOp
  /\ Finish(removeFrame(Arm(k), f), "removeFrame", f, 0)

MoveFrameBefore == \E k \in FailPoints : \E f, b \in (-1)..doc.frames :
  /\ CanOp
  /\ Finish(moveFrameBefore(Arm(k), f, b), "moveFrameBefore", f, b)

ClearMask == \E k \in FailPoints : \E c \in Colors :
  /\ CanOp
  /\ Finish(clearMask(Arm(k), c), "clearMask", c, 0)

CopyToCurrentMask == \E k \in FailPoints : \E mk \in Masks :
  /\ CanOp
  /\ Finish(copyToCurrentMask(Arm(k), mk), "copyToCurrentMask", mk.x, mk.y)

SetMaskPosition == \E k \in FailPoints : \E x, y \in 0..1 :
  /\ CanOp
  /\ Finish(setMaskPosition(Arm(k), x, y), "setMaskPosition", x, y)

DeselectMask == \E k \in FailPoints :
  /\ CanOp
  /\ Finish(deselectMask(Arm(k)), "deselectMask", 0, 0)

CropSprite == \E k \in FailPoints : \E r \in CropRects : \E c \in Colors :
  /\ CanOp
  /\ Finish(cropSprite(Arm(k), r[1], r[2], r[3], r[4], c), "cropSprite", r, c)

AutocropSprite == \E k \in FailPoints : \E c \in Colors :
  /\ CanOp
  /\ Finish(autocropSprite(Arm(k), c), "autocropSprite", c, 0)

SetImgType == \E k \in FailPoints : \E t \in ImgTypes :
  /\ CanOp
  /\ Finish(setImgType(Arm(k), t), "setImgType", t, 0)

\* the image of the current cel is flipped
FlipImage == \E k \in FailPoints : \E fh, fv \in BOOLEAN :
  /\ CanOp
  /\ getCelImage(doc, getCurrentCel(doc)) # NoImage
  /\ \E r \in FlipRects(getCelImage(doc, getCurrentCel(doc))) :
       Finish(flipImage(Arm(k), getCurrentCel(doc).image, r[1], r[2], r[3], r[4], fh, fv),
            "flipImage", <<getCurrentCel(doc).image, r[1], r[2], r[3], r[4], fh, fv>>, 0)

PasteImage == \E k \in FailPoints : \E p \in PastePlaces :
  /\ CanOp
  /\ Finish(pasteImage(Arm(k), PastedImage, p[1], p[2], 255), "pasteImage", p[1], p[2])

Next ==
  \/ Begin
  \/ Commit
  \/ Destroy
  \/ Undo
  \/ SetEnabled
  \/ BeginNested
  \/ DestroyNested
  \/ NewLayer
  \/ RemoveLayer
  \/ MoveLayerAfter
  \/ BackgroundFromLayer
  \/ LayerFromBackground
  \/ FlattenLayers
  \/ NewFrame
  \/ RemoveFrame
  \/ MoveFrameBefore
  \/ ClearMask
  \/ CopyToCurrentMask
  \/ SetMaskPosition
  \/ DeselectMask
  \/ CropSprite
  \/ AutocropSprite
  \/ SetImgType
  \/ FlipImage
  \/ PasteImage

Spec == Init /\ [][Next]_vars

\* transactions of several composite operations that set cel positions, move
\* the mask and replace, flip or clear the images of stock slots
NextRepeat ==
  \/ Begin
  \/ Commit
  \/ Destroy
  \/ Undo
  \/ CropSprite
  \/ SetImgType
  \/ FlipImage
  \/ SetMaskPosition
  \/ ClearMask

SpecRepeat == InitRepeat /\ [][NextRepeat]_vars

-----------------------------------------------------------------------------
(* Properties                                                                *)

RolledBack == hist.last = "destroy" /\ ~txn.committed /\ txn.enabledFlag

AfterOp(ops) == hist.last = "op" /\ hist.op \in ops

\* the image of stock slot i, NoImage for a slot that does not exist
StockSlot(d, i) == IF i >= 0 /\ i < Len(d.stock) THEN d.stock[i + 1] ELSE NoImage

CelsOf(d, l) == {d.layers[l].cels[i] : i \in 1..Len(d.layers[l].cels)}

\* C1: after a transaction opened with the journal enabled is destroyed
\* without commit, whatever composite operations were issued through it, the
\* document equals the document at the construction of the transaction.
RollbackRestoresDocument ==
  RolledBack => View(doc) = View(hist.doc0)

CompositeOps ==
  {"cropSprite", "autocropSprite", "setImgType", "newLayer", "removeLayer",
   "moveLayerAfter", "backgroundFromLayer", "layerFromBackground",
   "flattenLayers", "newFrame", "removeFrame", "moveFrameBefore", "clearMask",
   "flipImage", "pasteImage", "copyToCurrentMask", "setMaskPosition",
   "deselectMask"}

CommitFinality ==
  (hist.last = "destroy" /\ txn.committed) =>
    /\ doc = hist.pre
    /\ IF txn.enabledFlag
       THEN /\ undo.groups = Append(hist.groups0, hist.closed)
            /\ undo.redo = <<>>
       ELSE undo.groups = hist.groups0

CommitFinalityWitness ==
  /\ hist.last = "destroy"
  /\ txn.committed
  /\ txn.enabledFlag
  /\ txn.nops > 0
  /\ hist.closed.recs # <<>>
  /\ hist.groups0 # <<>>
  /\ View(doc) # View(hist.doc0)

\* C4: after a transaction opened with the journal enabled is destroyed
\* without commit (its operations completed, or one stopped by a failed
\* record, or none issued), the committed groups of the journal are the groups
\* at the construction of the transaction and the redo sequence is empty.
RollbackRestoresJournal ==
  RolledBack => (undo.groups = hist.groups0 /\ undo.redo = <<>> /\ ~undo.isOpen)

RollbackRestoresJournalWitness ==
  /\ RolledBack
  /\ txn.nops > 0
  /\ hist.groups0 # <<>>
  /\ hist.groups0[Len(hist.groups0)].recs # <<>>

StockRecords == {"add_image", "remove_image", "replace_image", "image", "dirty"}

\* the operations that change the stock only through addImageInStock,
\* removeImageFromStock and replaceStockImage (and logged pixel writes)
StockPrimitiveOps ==
  {"newFrame", "removeFrame", "backgroundFromLayer", "clearMask", "cropSprite",
   "autocropSprite", "setImgType", "pasteImage"}

\* every stock slot that differs from the stock of document d0 has an inverse
\* record in the open group
StockChangesRecorded(d0) ==
  \A i \in 0..Max(Len(doc.stock), Len(d0.stock)) :
    StockSlot(doc, i) # StockSlot(d0, i) =>
      \E j \in 1..Len(undo.open) :
        undo.open[j].kind \in StockRecords /\ undo.open[j].a = i

\* C5: in no state of an open transaction (journal enabled) a stock slot has
\* been added, removed or replaced by addImageInStock, removeImageFromStock or
\* replaceStockImage while the open group holds no inverse record for the slot.
StockInverseRecordedFirst ==
  (txn.state = "open" /\ txn.enabledFlag /\ AfterOp(StockPrimitiveOps)) =>
    StockChangesRecorded(hist.pre)

\* C6: a rollback of the enclosing transaction after flattenLayers, or after
\* any prefix of its steps (the step that follows failed: a journal record or
\* the allocation of a cel), restores the document as it was before the call.
FlattenLayersRollsBack ==
  (/\ txn.state = "open"
   /\ txn.enabledFlag
   /\ txn.nops = 1
   /\ txn.status # "aborted"
   /\ AfterOp({"flattenLayers"})) =>
    View(Destructor(M).doc) = View(hist.pre)

\* every cel of every image layer references a live stock slot
StockIntegrity(d) ==
  \A l \in ImageLayers(d) : \A c \in CelsOf(d, l) : StockSlot(d, c.image) # NoImage

\* C7: stock referential integrity: after any sequence of completed composite
\* operations, undo and rollback, every cel of every image layer references a
\* live stock slot, also when cels of different layers reference one slot.
StockReferentialIntegrity ==
  (txn.status = "ok" /\ ~hist.faulted) => StockIntegrity(doc)

BackgroundLayers(d) == {l \in ImageLayers(d) : d.layers[l].flags.background}

SingleBackground(d) ==
  /\ Cardinality(BackgroundLayers(d)) <= 1
  /\ \A l \in BackgroundLayers(d) :
       /\ Len(d.layers[l].cels) = d.frames
       /\ \A f \in 0..(d.frames - 1) :
            Cardinality({c \in CelsOf(d, l) : c.frame = f}) = 1

FramesInRange(d) ==
  \A l \in ImageLayers(d) : \A c \in CelsOf(d, l) : c.frame >= 0 /\ c.frame < d.frames

FramesUnique(d) ==
  \A l \in ImageLayers(d) : \A i, j \in 1..Len(d.layers[l].cels) :
    i # j => d.layers[l].cels[i].frame # d.layers[l].cels[j].frame

FrameOps == {"newFrame", "removeFrame", "moveFrameBefore"}

\* the frame given to removeFrame lies in [0,totalFrames)
RemovedFrameInRange ==
  hist.op = "removeFrame" => (hist.a >= 0 /\ hist.a < hist.pre.frames)

\* C9 (as stated): frame contiguity holds after newFrame, removeFrame and
\* moveFrameBefore, and the frame indices of a layer are unique in every
\* intermediate state of the three operations.
FrameContiguityInEveryState ==
  (/\ AfterOp(FrameOps)
   /\ RemovedFrameInRange
   /\ txn.status # "aborted"
   /\ FramesInRange(hist.pre)
   /\ FramesUnique(hist.pre)) =>
    /\ FramesUnique(doc)
    /\ txn.status = "ok" => FramesInRange(doc)

\* C9 (amended): frame contiguity holds after newFrame, removeFrame and
\* moveFrameBefore have returned, in every image layer at any folder depth;
\* in the intermediate states of newFrame and removeFrame the frame indices of
\* a layer are unique (moveFrameBefore renumbers the cels of a layer one by
\* one and passes through states where two cels share a frame index).
FrameContiguity ==
  (/\ AfterOp(FrameOps)
   /\ RemovedFrameInRange
   /\ FramesInRange(hist.pre)
   /\ FramesUnique(hist.pre)) =>
    /\ txn.status = "ok" => (FramesInRange(doc) /\ FramesUnique(doc))
    /\ (txn.status = "thrown" /\ hist.op # "moveFrameBefore") => FramesUnique(doc)

FrameContiguityWitness ==
  /\ AfterOp({"removeFrame"})
  /\ txn.status = "ok"
  /\ FramesInRange(hist.pre)
  /\ FramesUnique(hist.pre)
  /\ \E l \in ImageLayers(doc) : doc.layers[l].parent # ROOT /\ doc.layers[l].cels # <<>>
  /\ \E l \in ImageLayers(doc) : \E c \in CelsOf(doc, l) :
       \E c0 \in CelsOf(hist.pre, l) : c0.id = c.id /\ c0.frame = c.frame + 1

CurrentFrameInRange(d) == 0 <= d.frame /\ d.frame < d.frames

\* what newFrame and removeFrame leave: the counters move by exactly one and
\* removeFrame lowers the current frame only when it falls outside the new range
FrameCountersMoved ==
  /\ txn.status = "ok"
  /\ CurrentFrameInRange(doc)
  /\ hist.op = "newFrame" =>
       (doc.frames = hist.pre.frames + 1 /\ doc.frame = hist.pre.frame + 1)
  /\ hist.op = "removeFrame" =>
       /\ doc.frames = hist.pre.frames - 1
       /\ doc.frame = IF hist.pre.frame >= hist.pre.frames - 1
                      THEN hist.pre.frames - 2
                      ELSE hist.pre.frame

\* C10 (as stated): newFrame and removeFrame(f), f in [0,totalFrames), keep
\* 0 <= currentFrame < totalFrames for every sprite and every current frame:
\* removeFrame lowers the current frame only when it would fall outside the
\* new range and decrements totalFrames by one, newFrame raises totalFrames
\* and the current frame by one.
CurrentFrameKept ==
  (/\ AfterOp({"newFrame", "removeFrame"})
   /\ RemovedFrameInRange
   /\ txn.status # "thrown"
   /\ CurrentFrameInRange(hist.pre)) =>
    FrameCountersMoved

\* C10 (amended): the same, for removeFrame on a sprite that has at least two
\* frames (the only frame of a sprite cannot be removed: setCurrentFrame and
\* setNumberOfFrames assert frame >= 0 and frames >= 1).
CurrentFrameKeptTwoFrames ==
  (/\ AfterOp({"newFrame", "removeFrame"})
   /\ RemovedFrameInRange
   /\ txn.status # "thrown"
   /\ CurrentFrameInRange(hist.pre)
   /\ hist.op = "removeFrame" => hist.pre.frames >= 2) =>
    FrameCountersMoved

\* the last frame is removed while it is the current frame
CurrentFrameKeptWitness ==
  /\ AfterOp({"removeFrame"})
  /\ txn.status = "ok"
  /\ hist.pre.frames >= 2
  /\ hist.pre.frame = hist.pre.frames - 1
  /\ hist.a = hist.pre.frames - 1
  /\ doc.frame = hist.pre.frame - 1

LoggingDecidedAtConstruction ==
  /\ (txn.state = "open" /\ txn.enabledFlag /\ txn.status = "ok") =>
       /\ undo.isOpen
       /\ View(ApplyInverses(doc, undo.open)) = View(hist.doc0)
  /\ (hist.last = "destroy" /\ txn.enabledFlag) =>
       /\ ~undo.isOpen
       /\ txn.committed => undo.groups = Append(hist.groups0, hist.closed)
  /\ (~txn.enabledFlag /\ (txn.state = "open" \/ hist.last = "destroy")) =>
       /\ ~undo.isOpen
       /\ undo.open = <<>>
       /\ undo.groups = hist.groups0
       /\ undo.redo = hist.redo0

\* the journal was disabled after the construction of the transaction and an
\* operation issued afterwards was recorded
LoggingDecidedAtConstructionWitness ==
  /\ hist.last = "op"
  /\ hist.toggles > 0
  /\ txn.enabledFlag
  /\ ~undo.enabled
  /\ txn.status = "ok"
  /\ undo.open # <<>>
  /\ View(doc) # View(hist.doc0)

\* the cels a layer has after frame f is removed: the cel at f is gone, the
\* cels after f are one frame earlier, everything else of a cel is kept
CelsWithoutFrame(d, l, f) ==
  {[c EXCEPT !.frame = IF c.frame > f THEN c.frame - 1 ELSE c.frame] :
     c \in {c0 \in CelsOf(d, l) : c0.frame # f}}

\* C13: removeFrame(f) on a sprite with at least two frames, f in
\* [0,totalFrames): in every image layer the cel at f is removed, a cel at
\* g > f is at g-1 with its image index, position and opacity, a cel at g < f
\* is unchanged, totalFrames is one less; undoing the group restores the cel
\* frames and totalFrames.
RemoveFrameRenumbers ==
  /\ (/\ AfterOp({"removeFrame"})
      /\ RemovedFrameInRange
      /\ txn.status = "ok"
      /\ hist.pre.frames >= 2
      /\ FramesInRange(hist.pre)
      /\ FramesUnique(hist.pre)) =>
       /\ doc.frames = hist.pre.frames - 1
       /\ ImageLayers(doc) = ImageLayers(hist.pre)
       /\ \A l \in ImageLayers(doc) : CelsOf(doc, l) = CelsWithoutFrame(hist.pre, l, hist.a)
  /\ (hist.last = "undo" /\ hist.op = "removeFrame") =>
       /\ doc.frames = hist.doc0.frames
       /\ ImageLayers(doc) = ImageLayers(hist.doc0)
       /\ \A l \in ImageLayers(doc) : CelsOf(doc, l) = CelsOf(hist.doc0, l)

\* a frame is removed that has a cel in one layer, with a cel before it and
\* a cel after it
RemoveFrameRenumbersWitness ==
  /\ AfterOp({"removeFrame"})
  /\ txn.status = "ok"
  /\ hist.pre.frames >= 3
  /\ \E l \in ImageLayers(hist.pre) : \E c \in CelsOf(hist.pre, l) : c.frame = hist.a
  /\ \E l \in ImageLayers(hist.pre) : \E c \in CelsOf(hist.pre, l) : c.frame < hist.a
  /\ \E l \in ImageLayers(hist.pre) : \E c \in CelsOf(hist.pre, l) :
       c.frame > hist.a /\ [c EXCEPT !.frame = @ - 1] \in CelsOf(doc, l)

\* the place of frame i after moveFrameBefore(f, b) as the claim words it:
\* f goes to b-1 (f < b) or to b (b < f), the frames strictly between the two
\* shift by one toward the old place of f, every other frame is fixed
PlaceStrictlyBetween(i, f, b) ==
  IF i = f THEN (IF f < b THEN b - 1 ELSE b)
  ELSE IF f < i /\ i < b THEN i - 1
  ELSE IF b < i /\ i < f THEN i + 1
  ELSE i

\* the rotation: as above, and for b < f frame b shifts too (the frames of
\* [b, f) are one later)
PlaceRotated(i, f, b) ==
  IF i = f THEN (IF f < b THEN b - 1 ELSE b)
  ELSE IF f < i /\ i < b THEN i - 1
  ELSE IF b <= i /\ i < f THEN i + 1
  ELSE i

\* moveFrameBefore(f, b), f # b, both in [0,totalFrames), has returned
AfterMoveFrame ==
  /\ AfterOp({"moveFrameBefore"})
  /\ txn.status = "ok"
  /\ hist.a # hist.b
  /\ hist.a >= 0 /\ hist.a < hist.pre.frames
  /\ hist.b >= 0 /\ hist.b < hist.pre.frames

\* C14 (as stated): durations and cels are moved by the map that shifts only
\* the frames strictly between f and b.
MoveFramePermutesStrictlyBetween ==
  AfterMoveFrame =>
    /\ doc.frames = hist.pre.frames
    /\ \A i \in 0..(doc.frames - 1) :
         doc.frlens[PlaceStrictlyBetween(i, hist.a, hist.b) + 1] = hist.pre.frlens[i + 1]
    /\ \A l \in ImageLayers(hist.pre) :
         CelsOf(doc, l) =
           {[c EXCEPT !.frame = PlaceStrictlyBetween(c.frame, hist.a, hist.b)] :
              c \in CelsOf(hist.pre, l)}

\* C14 (amended): moveFrameBefore(f, b), f # b, both in [0,totalFrames),
\* applies one permutation p to the frame durations and to the cels of every
\* image layer at any folder depth: p(f) = b-1 and the frames of (f, b) are
\* one earlier when f < b; p(f) = b and the frames of [b, f) are one later
\* when b < f; all other frames are fixed.
MoveFramePermutes ==
  AfterMoveFrame =>
    /\ doc.frames = hist.pre.frames
    /\ \A i \in 0..(doc.frames - 1) :
         doc.frlens[PlaceRotated(i, hist.a, hist.b) + 1] = hist.pre.frlens[i + 1]
    /\ \A l \in ImageLayers(hist.pre) :
         CelsOf(doc, l) =
           {[c EXCEPT !.frame = PlaceRotated(c.frame, hist.a, hist.b)] :
              c \in CelsOf(hist.pre, l)}

\* the last of three frames is moved before the first; a layer inside a
\* folder has a cel at the first frame's successor
MoveFramePermutesWitness ==
  /\ AfterMoveFrame
  /\ hist.a = 2
  /\ hist.b = 0
  /\ \E l \in ImageLayers(hist.pre) :
       /\ hist.pre.layers[l].parent # ROOT
       /\ \E c \in CelsOf(hist.pre, l) : c.frame = 1
       /\ \E c \in CelsOf(doc, l) : c.frame = 2
       /\ \E c \in CelsOf(doc, l) : c.frame = 0
  /\ doc.frlens # hist.pre.frlens

\* the root folder of d holds two or more image layers and d has no background
TwoLayersNoBackground(d) ==
  /\ getBackgroundLayer(d) = NULL
  /\ Cardinality({l \in Range(d.layers[ROOT].layers) : d.layers[l].type = "image"}) >= 2

\* C15: flattenLayers on a sprite whose root folder holds two or more image
\* layers and no background: the root folder then holds exactly one layer,
\* marked background, which is the current layer and has a cel at every
\* frame; undoing the transaction restores the layers in their order, each
\* with its cels (frame, position, image index), and the current layer.
FlattenLeavesBackground ==
  /\ (AfterOp({"flattenLayers"}) /\ txn.status = "ok" /\ TwoLayersNoBackground(hist.pre)) =>
       /\ Len(doc.layers[ROOT].layers) = 1
       /\ LET background == doc.layers[ROOT].layers[1]
          IN  /\ DOMAIN doc.layers = {ROOT, background}
              /\ doc.layers[background].type = "image"
              /\ doc.layers[background].flags.background
              /\ doc.layer = background
              /\ \A f \in 0..(doc.frames - 1) :
                   \E c \in CelsOf(doc, background) : c.frame = f
  /\ (hist.last = "undo" /\ hist.op = "flattenLayers" /\ TwoLayersNoBackground(hist.doc0)) =>
       /\ DOMAIN doc.layers = DOMAIN hist.doc0.layers
       /\ \A l \in DOMAIN doc.layers :
            LayerView(doc.layers[l]) = LayerView(hist.doc0.layers[l])
       /\ doc.layer = hist.doc0.layer

\* two transparent layers have been flattened into a new background
FlattenLeavesBackgroundWitness ==
  /\ AfterOp({"flattenLayers"})
  /\ txn.status = "ok"
  /\ TwoLayersNoBackground(hist.pre)
  /\ hist.pre.frames >= 2
  /\ Len(doc.layers[ROOT].layers) = 1
  /\ doc.layer # hist.pre.layer
  /\ Len(doc.layers[doc.layer].cels) = doc.frames

\* all cels of the sprite
AllCels(d) == UNION {CelsOf(d, l) : l \in ImageLayers(d)}

\* the cels of the background (if any) sit at (0,0) with canvas-sized images,
\* each in a stock slot of its own
BackgroundOnCanvas(d) ==
  \A l \in BackgroundLayers(d) : \A c \in CelsOf(d, l) :
    /\ c.x = 0
    /\ c.y = 0
    /\ StockSlot(d, c.image).w = d.w
    /\ StockSlot(d, c.image).h = d.h
    /\ \A c2 \in AllCels(d) : c2.image = c.image => c2 = c

\* the w by h window at (x,y) of image img0, bg outside of img0
IsCropOf(img, img0, x, y, w, h, bg) ==
  /\ img.w = w
  /\ img.h = h
  /\ \A i \in 0..(w - 1) : \A j \in 0..(h - 1) :
       image_getpixel(img, i, j) =
         IF x + i >= 0 /\ x + i < img0.w /\ y + j >= 0 /\ y + j < img0.h
         THEN img0.px[y + j + 1][x + i + 1]
         ELSE bg

\* C16: cropSprite(x,y,w,h,bg), w,h > 0, the background cels at (0,0) with
\* canvas-sized images in slots of their own: the sprite size is (w,h); every
\* background cel is at (0,0) and its image is the w by h window at (x,y) of
\* its old image, bg outside; every cel of another layer (any folder depth) is
\* displaced by (-x,-y), its image unchanged; a non-empty mask is moved by
\* (-x,-y), an empty mask is unchanged.
CropSpriteEffect ==
  (AfterOp({"cropSprite"}) /\ txn.status = "ok" /\ BackgroundOnCanvas(hist.pre)) =>
    LET x == hist.a[1]
        y == hist.a[2]
        w == hist.a[3]
        h == hist.a[4]
        d0 == hist.pre
    IN  /\ doc.w = w
        /\ doc.h = h
        /\ ImageLayers(doc) = ImageLayers(d0)
        /\ \A l \in ImageLayers(d0) :
             /\ Len(doc.layers[l].cels) = Len(d0.layers[l].cels)
             /\ \A c0 \in CelsOf(d0, l) : \E c \in CelsOf(doc, l) :
                  /\ c.id = c0.id
                  /\ c.frame = c0.frame
                  /\ c.opacity = c0.opacity
                  /\ c.image = c0.image
                  /\ IF d0.layers[l].flags.background
                     THEN /\ c.x = 0
                          /\ c.y = 0
                          /\ IsCropOf(StockSlot(doc, c.image), StockSlot(d0, c0.image),
                                      x, y, w, h, hist.b)
                     ELSE /\ c.x = c0.x - x
                          /\ c.y = c0.y - y
                          /\ StockSlot(doc, c.image) = StockSlot(d0, c0.image)
        /\ doc.mask = IF mask_is_empty(d0.mask) THEN d0.mask
                      ELSE [d0.mask EXCEPT !.x = @ - x, !.y = @ - y]

\* a sprite with a background and a transparent layer is cropped to a
\* rectangle that reaches outside of the canvas, with an opaque bg
CropSpriteEffectWitness ==
  /\ AfterOp({"cropSprite"})
  /\ txn.status = "ok"
  /\ BackgroundOnCanvas(hist.pre)
  /\ hist.a[1] < 0
  /\ hist.b = 1
  /\ BackgroundLayers(hist.pre) # {}
  /\ \E l \in ImageLayers(doc) \ BackgroundLayers(doc) : doc.layers[l].cels # <<>>
  /\ \A l \in BackgroundLayers(doc) : \A c \in CelsOf(doc, l) :
       image_getpixel(StockSlot(doc, c.image), 0, 0) = 1

\* the frame of the sprite as it is rendered, on a transparent canvas
RenderedFrame(d, frame) ==
  layer_render(d, ROOT, image_clear(image_new(d.imgtype, d.w, d.h), 0), frame)

\* no frame has a pixel that differs from the pixel at the origin of the frame
NoFrameHasContent(d) ==
  \A frame \in 0..(d.frames - 1) :
    \A x \in 0..(d.w - 1) : \A y \in 0..(d.h - 1) :
      image_getpixel(RenderedFrame(d, frame), x, y) =
        image_getpixel(RenderedFrame(d, frame), 0, 0)

\* there is no current cel or it has no image
NoCurrentImage(d) ==
  \/ d.layer = NULL
  \/ d.layers[d.layer].type # "image"
  \/ \A c \in CelsOf(d, d.layer) : c.frame = d.frame => StockSlot(d, c.image) = NoImage

\* the rectangle of the (non-empty) mask and the image of the current cel
\* have no point in common
MaskMissesImage(d) ==
  /\ ~NoCurrentImage(d)
  /\ ~mask_is_empty(d.mask)
  /\ LET cel == getCurrentCel(d)
         image == StockSlot(d, cel.image)
     IN  \/ d.mask.x + d.mask.w <= cel.x
         \/ cel.x + image.w <= d.mask.x
         \/ d.mask.y + d.mask.h <= cel.y
         \/ cel.y + image.h <= d.mask.y

\* the operation that has returned was issued where it has nothing to do
LegitimateNoOp ==
  /\ hist.last = "op"
  /\ \/ hist.op = "autocropSprite" /\ NoFrameHasContent(hist.pre)
     \/ hist.op = "clearMask" /\ (NoCurrentImage(hist.pre) \/ MaskMissesImage(hist.pre))
     \/ /\ hist.op = "moveFrameBefore"
        /\ \/ hist.a = hist.b
           \/ hist.a < 0 \/ hist.a >= hist.pre.frames
           \/ hist.b < 0 \/ hist.b >= hist.pre.frames
     \/ hist.op = "setImgType" /\ hist.a = hist.pre.imgtype

\* C17: legitimate no-ops (autocropSprite when no frame has a pixel that
\* differs from the reference pixel, clearMask without a current cel or image
\* or with a mask that misses the image, moveFrameBefore with equal or
\* out-of-range indices, setImgType to the present mode) return normally,
\* leave the document as it was, the current frame included, and append no
\* record to the open group.
NoOpsLeaveNoTrace ==
  LegitimateNoOp =>
    /\ txn.status = "ok"
    /\ doc = hist.pre
    /\ undo.open = hist.preOpen

\* autocropSprite has returned on a blank sprite of two frames whose current
\* frame is the first, with the journal enabled
NoOpsLeaveNoTraceWitness ==
  /\ LegitimateNoOp
  /\ hist.op = "autocropSprite"
  /\ txn.enabledFlag
  /\ hist.pre.frames >= 2
  /\ hist.pre.frame = 0
  /\ doc.frame = 0

\* the records that save the whole value of a field, and the records that
\* change the image of a stock slot
FieldKinds == {"cel_x", "cel_y", "mask_x", "mask_y"}

SlotKinds == {"replace_image", "image", "flip", "dirty", "add_image", "remove_image"}

\* the field or stock slot a record is about
TargetOf(r) ==
  IF r.kind \in {"cel_x", "cel_y"} THEN <<r.kind, r.a>>
  ELSE IF r.kind \in {"mask_x", "mask_y"} THEN <<r.kind, 0>>
  ELSE IF r.kind \in SlotKinds THEN <<"slot", r.a>>
  ELSE <<"other", 0>>

\* the value of a field or stock slot in the document d
ValueIn(d, tg) ==
  CASE tg[1] = "cel_x" -> CelById(d, tg[2]).x
    [] tg[1] = "cel_y" -> CelById(d, tg[2]).y
    [] tg[1] = "mask_x" -> d.mask.x
    [] tg[1] = "mask_y" -> d.mask.y
    [] OTHER -> StockSlot(d, tg[2])

\* the value a record saved, for the records that save a whole value
SavedBy(r) == IF r.kind = "replace_image" THEN r.v ELSE r.b

\* the fields and stock slots that the records change more than once
ChangedTwice(recs) ==
  {TargetOf(recs[i]) : i \in {i \in 1..Len(recs) :
      /\ TargetOf(recs[i])[1] # "other"
      /\ \E j \in (i + 1)..Len(recs) : TargetOf(recs[j]) = TargetOf(recs[i])}}

\* the first record of every field or slot changed more than once, when it
\* saves a whole value, saved the value of the document d0
FirstRecordSavesOriginal(recs, d0) ==
  \A i \in 1..Len(recs) :
    (/\ TargetOf(recs[i]) \in ChangedTwice(recs)
     /\ recs[i].kind \in FieldKinds \cup {"replace_image"}
     /\ \A h \in 1..(i - 1) : TargetOf(recs[h]) # TargetOf(recs[i]))
    => SavedBy(recs[i]) = ValueIn(d0, TargetOf(recs[i]))

\* cropSprite(x, y, ...) alone on a sprite with a background: each cel of the
\* background has two records of its x, the one of displaceLayers saving the
\* x of the cel, the one of cropCel saving that x moved by -x, and the record
\* of the cropped image between them
CropRecordsInCallOrder(recs, d0, x) ==
  \A l \in BackgroundLayers(d0) : \A c \in CelsOf(d0, l) :
    LET xs == {i \in 1..Len(recs) : recs[i].kind = "cel_x" /\ recs[i].a = c.id}
    IN  /\ Cardinality(xs) = 2
        /\ \E i, j \in xs :
             /\ i < j
             /\ recs[i].b = c.x
             /\ recs[j].b = c.x - x
             /\ \E k \in (i + 1)..(j - 1) :
                  recs[k].kind = "replace_image" /\ recs[k].a = c.image

\* C18: when one transaction changes the same field or stock slot more than
\* once, the records are in the group in the order of the calls (the records
\* of a later operation follow those of an earlier one, cropSprite's record
\* of displaceLayers precedes that of cropCel), the first record of the field
\* or slot holds the value at the opening of the group, and undoing the group
\* last record first restores every such field and slot to that value.
RepeatedChangesRestored ==
  /\ (txn.state = "open" /\ txn.enabledFlag /\ txn.status = "ok" /\ hist.last = "op")
     => /\ Len(hist.preOpen) <= Len(undo.open)
        /\ SubSeq(undo.open, 1, Len(hist.preOpen)) = hist.preOpen
        /\ FirstRecordSavesOriginal(undo.open, hist.doc0)
        /\ \A tg \in ChangedTwice(undo.open) :
             ValueIn(ApplyInverses(doc, undo.open), tg) = ValueIn(hist.doc0, tg)
        /\ (hist.op = "cropSprite" /\ hist.n = 1)
           => CropRecordsInCallOrder(undo.open, hist.doc0, hist.a[1])
  /\ (hist.last = "undo" /\ ~hist.faulted /\ undo.redo # <<>>)
     => \A tg \in ChangedTwice(undo.redo[Len(undo.redo)].recs) :
          ValueIn(doc, tg) = ValueIn(hist.doc0, tg)

\* C18 witness: a group of two operations has been undone in which a cel's x
\* was set twice to different values and a stock slot was replaced twice
RepeatedChangesRestoredWitness ==
  /\ hist.last = "undo"
  /\ ~hist.faulted
  /\ undo.redo # <<>>
  /\ LET recs == undo.redo[Len(undo.redo)].recs
     IN  /\ \E i, j \in 1..Len(recs) :
               /\ i < j
               /\ recs[i].kind = "cel_x" /\ recs[j].kind = "cel_x"
               /\ recs[i].a = recs[j].a
               /\ recs[i].b # recs[j].b
         /\ \E i, j \in 1..Len(recs) :
               /\ i < j
               /\ recs[i].kind = "replace_image" /\ recs[j].kind = "replace_image"
               /\ recs[i].a = recs[j].a
               /\ recs[i].v # recs[j].v
         /\ \E l \in ImageLayers(doc) : \E c \in CelsOf(doc, l) :
               <<"cel_x", c.id>> \in ChangedTwice(recs)

\* removeFrame was called with a frame outside [0,totalFrames) and no journal
\* record failed
AfterRemoveFrameOutside ==
  /\ AfterOp({"removeFrame"})
  /\ hist.a < 0 \/ hist.a >= hist.pre.frames
  /\ txn.status # "thrown"

\* C19: removeFrame(frame) with frame outside [0,totalFrames) is rejected as a
\* fatal precondition violation and leaves totalFrames, currentFrame and the
\* cels of every layer unchanged.
RemoveFrameOutsideRejected ==
  AfterRemoveFrameOutside =>
    /\ txn.status = "aborted"
    /\ doc.frames = hist.pre.frames
    /\ doc.frame = hist.pre.frame
    /\ \A l \in ImageLayers(hist.pre) : CelsOf(doc, l) = CelsOf(hist.pre, l)

\* newFrame() has returned on a sprite whose cels lie at distinct frames of
\* [0,totalFrames) and reference images of the stock
AfterNewFrame ==
  /\ AfterOp({"newFrame"})
  /\ txn.status = "ok"
  /\ CurrentFrameInRange(hist.pre)
  /\ FramesInRange(hist.pre)
  /\ FramesUnique(hist.pre)
  /\ StockIntegrity(hist.pre)

\* the cel n is the copy of the cel s0 made by newFrame: same position and
\* opacity, its image in a stock slot that did not exist before and that no
\* other cel references, holding the image of s0
IsFrameCopy(n, s0) ==
  /\ n.x = s0.x /\ n.y = s0.y /\ n.opacity = s0.opacity
  /\ n.image >= Len(hist.pre.stock)
  /\ StockSlot(doc, n.image) # NoImage
  /\ StockSlot(doc, n.image) = StockSlot(hist.pre, s0.image)
  /\ \A l \in ImageLayers(doc) : \A c2 \in CelsOf(doc, l) :
       c2.image = n.image => c2.id = n.id
  /\ \A l \in ImageLayers(hist.pre) : \A c2 \in CelsOf(hist.pre, l) : c2.id # n.id

\* C20: newFrame() with currentFrame = c and totalFrames = n: afterwards
\* totalFrames = n+1 and currentFrame = c+1; in every image layer at any
\* folder depth each cel at g >= c+1 is at g+1 and each cel at g <= c is
\* unchanged; a layer with a cel at c has one new cel at c+1 with the same x, y
\* and opacity whose image is in a newly added stock slot referenced by no
\* other cel and holding a copy of the image of frame c; a layer without a cel
\* at c has no cel at c+1; the slots the stock had are unchanged.
NewFrameCopiesPrevious ==
  AfterNewFrame =>
    LET c == hist.pre.frame
    IN  /\ doc.frames = hist.pre.frames + 1
        /\ doc.frame = c + 1
        /\ ImageLayers(doc) = ImageLayers(hist.pre)
        /\ \A i \in 0..(Len(hist.pre.stock) - 1) : StockSlot(doc, i) = StockSlot(hist.pre, i)
        /\ \A l \in ImageLayers(hist.pre) :
             LET src == {c0 \in CelsOf(hist.pre, l) : c0.frame = c}
                 new == {n \in CelsOf(doc, l) : n.frame = c + 1}
             IN  /\ CelsOf(doc, l) \ new =
                      {[c0 EXCEPT !.frame = IF c0.frame >= c + 1 THEN @ + 1 ELSE @] :
                         c0 \in CelsOf(hist.pre, l)}
                 /\ Cardinality(new) = Cardinality(src)
                 /\ \A n \in new : \A s0 \in src : IsFrameCopy(n, s0)

\* C20 witness: newFrame returned on a sprite with a layer inside a folder
\* that had no cel at the current frame and got none at the new frame, its
\* later cels being one frame later; in another layer the cel at the current
\* frame was copied and a later cel moved
NewFrameCopiesPreviousWitness ==
  /\ AfterNewFrame
  /\ \E l \in ImageLayers(hist.pre) :
       /\ \E c0 \in CelsOf(hist.pre, l) : c0.frame = hist.pre.frame
       /\ \E c0 \in CelsOf(hist.pre, l) : \E c1 \in CelsOf(doc, l) :
            c0.frame > hist.pre.frame /\ c1.id = c0.id /\ c1.frame = c0.frame + 1
       /\ \E n \in CelsOf(doc, l) : n.frame = doc.frame /\ n.image >= Len(hist.pre.stock)
  /\ \E l \in ImageLayers(hist.pre) :
       /\ doc.layers[l].parent # ROOT
       /\ CelsOf(hist.pre, l) # {}
       /\ \A c0 \in CelsOf(hist.pre, l) : c0.frame # hist.pre.frame
       /\ \A n \in CelsOf(doc, l) : n.frame # doc.frame

\* the layer that removeLayer(l) selects when l is the current layer of d
SelectedAfterRemove(d, l) ==
  IF get_prev(d, l) # NULL THEN get_prev(d, l)
  ELSE IF get_next(d, l) # NULL THEN get_next(d, l)
  ELSE IF d.layers[l].parent # ROOT THEN d.layers[l].parent
  ELSE NULL

\* in the records after the first from, the record of the selection precedes
\* the record of the removal
SelectionRecordedFirst(recs, from) ==
  \E i, j \in (from + 1)..Len(recs) :
    /\ i < j
    /\ recs[i].kind = "set_layer"
    /\ recs[j].kind = "remove_layer"

\* removeLayer(l) has returned: the selection it leaves, and the document
\* after the undo of its group
RemoveLayerSelects ==
  /\ (AfterOp({"removeLayer"}) /\ txn.status = "ok") =>
       /\ doc.layer = IF hist.a = hist.pre.layer
                      THEN SelectedAfterRemove(hist.pre, hist.a)
                      ELSE hist.pre.layer
       /\ hist.a \notin DOMAIN doc.layers
       /\ (txn.enabledFlag /\ hist.a = hist.pre.layer)
            => SelectionRecordedFirst(undo.open, Len(hist.preOpen))
  /\ (hist.last = "undo" /\ hist.op = "removeLayer") =>
       /\ doc.layer = hist.doc0.layer
       /\ View(doc).layers = View(hist.doc0).layers

\* C21: removeLayer(layer): the current layer becomes the previous sibling,
\* else the next sibling, else the parent folder when it is not the root, else
\* none; the selection is unchanged when layer is not the current layer; the
\* selection is recorded before the removal, the current layer never refers
\* to a destroyed layer, and undoing the group restores the layer at its place
\* and the old selection.
RemoveLayerKeepsSelectionAlive ==
  /\ RemoveLayerSelects
  /\ (AfterOp({"removeLayer"}) /\ txn.status = "ok") =>
       (doc.layer = NULL \/ doc.layer \in DOMAIN doc.layers)

\* the bit of the mask of d that lies over the pixel (px, py) of the image of
\* cel is set
MaskedPixel(d, cel, px, py) ==
  LET u == px - (d.mask.x - cel.x)
      v == py - (d.mask.y - cel.y)
  IN  /\ u >= 0 /\ u < d.mask.w
      /\ v >= 0 /\ v < d.mask.h
      /\ d.mask.bits[v + 1][u + 1]

\* clearMask(bg) has returned; the mask was not empty and the current cel had
\* an image
AfterClearMasked ==
  /\ AfterOp({"clearMask"})
  /\ txn.status = "ok"
  /\ ~mask_is_empty(hist.pre.mask)
  /\ getCurrentCel(hist.pre) # NoCel
  /\ getCelImage(hist.pre, getCurrentCel(hist.pre)) # NoImage

\* the records the last operation added to the open group
LastRecords == SubSeq(undo.open, Len(hist.preOpen) + 1, Len(undo.open))

\* C22: clearMask(bg) with a non-empty mask and a current cel: every pixel of
\* the image under a set bit of the mask (mask coordinates moved by the
\* position of the cel) is bg and every other pixel is as before; every
\* changed pixel lies in the rectangle whose pixels, as they were before the
\* call, are the one record of the call; nothing else of the document
\* changes; undoing the records restores the document.
ClearMaskEffect ==
  AfterClearMasked =>
    LET cel == getCurrentCel(hist.pre)
        old == StockSlot(hist.pre, cel.image)
        new == StockSlot(doc, cel.image)
        x1 == Max(0, hist.pre.mask.x - cel.x)
        y1 == Max(0, hist.pre.mask.y - cel.y)
        x2 == Min(old.w - 1, hist.pre.mask.x - cel.x + hist.pre.mask.w - 1)
        y2 == Min(old.h - 1, hist.pre.mask.y - cel.y + hist.pre.mask.h - 1)
        changed == {p \in (0..(old.w - 1)) \X (0..(old.h - 1)) :
                      new.px[p[2] + 1][p[1] + 1] # old.px[p[2] + 1][p[1] + 1]}
    IN  /\ new.w = old.w /\ new.h = old.h /\ new.imgtype = old.imgtype
        /\ \A p \in (0..(old.w - 1)) \X (0..(old.h - 1)) :
             new.px[p[2] + 1][p[1] + 1] =
               IF MaskedPixel(hist.pre, cel, p[1], p[2]) THEN hist.a
               ELSE old.px[p[2] + 1][p[1] + 1]
        /\ \A p \in changed : x1 <= p[1] /\ p[1] <= x2 /\ y1 <= p[2] /\ p[2] <= y2
        /\ View([doc EXCEPT !.stock[cel.image + 1] = old]) = View(hist.pre)
        /\ txn.enabledFlag =>
             /\ (x1 > x2 \/ y1 > y2) => LastRecords = <<>>
             /\ (x1 <= x2 /\ y1 <= y2) =>
                  /\ Len(LastRecords) = 1
                  /\ LastRecords[1].kind = "image"
                  /\ LastRecords[1].a = cel.image
                  /\ LastRecords[1].b = x1 /\ LastRecords[1].c = y1
                  /\ LastRecords[1].v.w = x2 - x1 + 1 /\ LastRecords[1].v.h = y2 - y1 + 1
                  /\ \A p \in (x1..x2) \X (y1..y2) :
                       LastRecords[1].v.px[p[2] - y1 + 1][p[1] - x1 + 1] =
                         old.px[p[2] + 1][p[1] + 1]
             /\ View(ApplyInverses(doc, LastRecords)) = View(hist.pre)

\* C22 witness: the journal is enabled, the cel is not at the origin of the
\* canvas, a pixel of its image was changed and a pixel of the recorded
\* rectangle lies under a bit that is not set
ClearMaskEffectWitness ==
  /\ AfterClearMasked
  /\ txn.enabledFlag
  /\ LET cel == getCurrentCel(hist.pre)
         old == StockSlot(hist.pre, cel.image)
     IN  /\ cel.x # 0 \/ cel.y # 0
         /\ StockSlot(doc, cel.image) # old
         /\ Len(LastRecords) = 1
         /\ \E p \in (0..(old.w - 1)) \X (0..(old.h - 1)) :
              /\ ~MaskedPixel(hist.pre, cel, p[1], p[2])
              /\ p[1] >= LastRecords[1].b
              /\ p[1] < LastRecords[1].b + LastRecords[1].v.w
              /\ p[2] >= LastRecords[1].c
              /\ p[2] < LastRecords[1].c + LastRecords[1].v.h

\* the masks of the repository of d that are named "*deselected*"
DeselectedMasks(d) == {i \in 1..Len(d.masks) : d.masks[i].name = "*deselected*"}

\* the region of a mask: everything but its name
MaskRegion(mk) == [x |-> mk.x, y |-> mk.y, w |-> mk.w, h |-> mk.h, bits |-> mk.bits]

\* C23: deselectMask(): afterwards the active mask is empty and the repository
\* holds exactly one mask named "*deselected*", whose region is that of the
\* active mask before the call (a "*deselected*" mask of before is gone, the
\* other masks of the repository are kept); the active mask is recorded before
\* it is cleared: the call adds one record, which holds the mask of before,
\* and undoing the group restores the active mask.
DeselectMaskSwaps ==
  /\ (AfterOp({"deselectMask"}) /\ txn.status = "ok"
        /\ Cardinality(DeselectedMasks(hist.pre)) <= 1) =>
       /\ mask_is_empty(doc.mask)
       /\ Cardinality(DeselectedMasks(doc)) = 1
       /\ \A i \in DeselectedMasks(doc) :
            MaskRegion(doc.masks[i]) = MaskRegion(hist.pre.mask)
       /\ {doc.masks[i] : i \in (1..Len(doc.masks)) \ DeselectedMasks(doc)} =
            {hist.pre.masks[i] : i \in (1..Len(hist.pre.masks)) \ DeselectedMasks(hist.pre)}
       /\ View([doc EXCEPT !.mask = hist.pre.mask]) = View(hist.pre)
       /\ txn.enabledFlag =>
            /\ Len(LastRecords) = 1
            /\ LastRecords[1].kind = "set_mask"
            /\ LastRecords[1].v = hist.pre.mask
            /\ ApplyInverses(doc, LastRecords).mask = hist.pre.mask
  /\ (hist.last = "undo" /\ hist.op = "deselectMask") => doc.mask = hist.doc0.mask

\* C23 witness: a selection was deselected while the repository held the
\* selection deselected before, which differs from it, and the group has
\* been undone
DeselectMaskSwapsWitness ==
  /\ hist.last = "undo"
  /\ hist.op = "deselectMask"
  /\ ~mask_is_empty(doc.mask)
  /\ DeselectedMasks(hist.doc0) # {}
  /\ \A i \in DeselectedMasks(hist.doc0) :
       MaskRegion(hist.doc0.masks[i]) # MaskRegion(hist.doc0.mask)
  /\ \A i \in DeselectedMasks(doc) : MaskRegion(doc.masks[i]) = MaskRegion(doc.mask)

\* flipImage(image, x1, y1, x2, y2, horizontal, vertical) has been called;
\* hist.a holds its arguments in that order
AfterFlipImage == AfterOp({"flipImage"})

\* the records of a flipImage with the arguments a: one per requested axis,
\* the horizontal one first
FlipRecords(a) ==
  (IF a[6] THEN <<R("flip", a[1], 0, 0, <<a[2], a[3], a[4], a[5], TRUE>>)>> ELSE <<>>)
  \o (IF a[7] THEN <<R("flip", a[1], 0, 0, <<a[2], a[3], a[4], a[5], FALSE>>)>> ELSE <<>>)

\* new is old with the rectangle of a mirrored over the axes of a, and equal
\* to old outside the rectangle
Mirrored(old, new, a) ==
  /\ new.w = old.w /\ new.h = old.h /\ new.imgtype = old.imgtype
  /\ \A p \in (0..(old.w - 1)) \X (0..(old.h - 1)) :
       new.px[p[2] + 1][p[1] + 1] =
         IF a[2] <= p[1] /\ p[1] <= a[4] /\ a[3] <= p[2] /\ p[2] <= a[5]
         THEN old.px[(IF a[7] THEN a[3] + a[5] - p[2] ELSE p[2]) + 1]
                    [(IF a[6] THEN a[2] + a[4] - p[1] ELSE p[1]) + 1]
         ELSE old.px[p[2] + 1][p[1] + 1]

\* the last two operations are the same flipImage call, known by the equal,
\* non-empty records of the two
SameFlipTwice ==
  /\ AfterFlipImage
  /\ txn.status = "ok"
  /\ hist.n = 2
  /\ LastRecords # <<>>
  /\ hist.preOpen = LastRecords

\* C24: flipImage over a rectangle inside the image adds one record per
\* requested axis to the open group (none for no axis, two for both) and
\* writes no pixel when a record cannot be taken; the rectangle is mirrored
\* over the requested axes and nothing else of the document changes;
\* undoing the records of the call last to first restores the document, and
\* so does the same call made a second time.
FlipImageEffect ==
  /\ AfterFlipImage =>
       LET a == hist.a
           old == Stock_getImage(hist.pre, a[1])
           new == Stock_getImage(doc, a[1])
       IN  /\ txn.status # "ok" => doc = hist.pre
           /\ txn.status = "ok" =>
                /\ Mirrored(old, new, a)
                /\ doc = Stock_replaceImage(hist.pre, a[1], new)
                /\ (~a[6] /\ ~a[7]) => /\ doc = hist.pre
                                      /\ LastRecords = <<>>
                /\ txn.enabledFlag =>
                     /\ LastRecords = FlipRecords(a)
                     /\ ApplyInverses(doc, LastRecords) = hist.pre
  /\ SameFlipTwice => doc = hist.doc0

\* C24 witness: the same flip over both axes of a rectangle that is not the
\* whole image has been made twice, two records each time, and the second
\* call changed the image
FlipImageEffectWitness ==
  /\ SameFlipTwice
  /\ txn.enabledFlag
  /\ hist.a[6] /\ hist.a[7]
  /\ Len(LastRecords) = 2
  /\ hist.a[4] - hist.a[2] < Stock_getImage(doc, hist.a[1]).w - 1
  /\ doc # hist.pre

\* the background has two cels on one stock slot; its cels sit at (0,0) with
\* canvas-sized images
LinkedBackground(d) ==
  /\ \E l \in BackgroundLayers(d) : \E c1, c2 \in CelsOf(d, l) :
       c1 # c2 /\ c1.image = c2.image
  /\ \A l \in BackgroundLayers(d) : \A c \in CelsOf(d, l) :
       /\ c.x = 0 /\ c.y = 0
       /\ StockSlot(d, c.image).w = d.w
       /\ StockSlot(d, c.image).h = d.h

\* C25: cropSprite(x,y,w,h,bg) on a sprite whose background has two cels on
\* one stock slot: afterwards every background cel is at (0,0) and its slot
\* holds the w by h window at (x,y) of the image the slot held before, bg
\* outside (the slot is cropped once).
CropSpriteCropsLinkedOnce ==
  (AfterOp({"cropSprite"}) /\ txn.status = "ok" /\ LinkedBackground(hist.pre)) =>
    \A l \in BackgroundLayers(hist.pre) : \A c0 \in CelsOf(hist.pre, l) :
      \E c \in CelsOf(doc, l) :
        /\ c.id = c0.id
        /\ c.image = c0.image
        /\ c.x = 0 /\ c.y = 0
        /\ IsCropOf(StockSlot(doc, c.image), StockSlot(hist.pre, c0.image),
                    hist.a[1], hist.a[2], hist.a[3], hist.a[4], hist.b)

====
